---- MODULE Spec2Model ----
(***************************************************************************)
(* State-machine model of the ClickUp sync service (clickup-sync-node):    *)
(* the merge engine SyncService.syncTaskCustomFields, the type side-sync   *)
(* TaskTypeSync, the storage operations of src/db and the remote client's  *)
(* retry loop, together with the two external writers the service shares   *)
(* its world with (the ClickUp workspace and the Airbyte importer).        *)
(*                                                                         *)
(* Text that the code inspects character by character (custom-field names, *)
(* storage keys) is a sequence of Unicode code points; text the code only  *)
(* copies (task names, ids) is a TLA+ string.                              *)
(***************************************************************************)
EXTENDS Integers, Sequences, FiniteSets, TLC

(***************************************************************************)
(* Bounds of the model.                                                    *)
(***************************************************************************)
\* The wall clock (CURRENT_TIMESTAMP, new Date()) runs from 0 to MaxClock.
MaxClock == 1
\* The callers invoke syncTaskCustomFields at most MaxRuns times in all.
MaxRuns == 2
\* The workspace and the importer act at most MaxEvents times in all.
MaxEvents == 2
\* getSpaceTasks asks for at most MaxPages pages.
MaxPages == 3

(***************************************************************************)
(* Values.                                                                 *)
(***************************************************************************)
\* SQL NULL and JavaScript null/undefined of a text-valued slot.  No text
\* of the model equals it.
NULL == "NULL"

\* JavaScript values of a custom field's `value`, tagged by their type.
JsNull == [k |-> "null", s |-> "", n |-> 0]
JsStr(s) == [k |-> "str", s |-> s, n |-> 0]
JsNum(n) == [k |-> "num", s |-> "", n |-> n]
JsDate(v) == [k |-> "date", s |-> v.s, n |-> v.n]
JsNaN == [k |-> "nan", s |-> "", n |-> 0]

\* The `mapping` argument that a caller leaves out.
Undefined == [k |-> "undefined"]
\* mapFieldName's "no mapping" result.
NoMapping == [k |-> "null"]

(***************************************************************************)
(* Text as code points.                                                    *)
(***************************************************************************)
\* "Client"
Client == <<67, 108, 105, 101, 110, 116>>
\* "Client" SPACE U+1F3AF (direct hit)
ClientEmoji == <<67, 108, 105, 101, 110, 116, 32, 127919>>
\* "Random Notes"
RandomNotes == <<82, 97, 110, 100, 111, 109, 32, 78, 111, 116, 101, 115>>
\* "Fee"
Fee == <<70, 101, 101>>
\* "Hours per Day"
HoursPerDay == <<72, 111, 117, 114, 115, 32, 112, 101, 114, 32, 68, 97, 121>>
\* "[object Object]": what JavaScript makes of an object used as a property key
ObjectObject == <<91, 111, 98, 106, 101, 99, 116, 32, 79, 98, 106, 101, 99, 116, 93>>
\* "client", the dedicated column of the field "Client"
ClientColumn == <<99, 108, 105, 101, 110, 116>>

(***************************************************************************)
(* Name sanitisation: sync.js line 150.                                    *)
(***************************************************************************)
\* The character class of the replace() call: seven code-point ranges.
Pictographic(c) ==
    \/ (c >= 127744 /\ c <= 129535)     \* U+1F300 - U+1F9FF
    \/ (c >= 128512 /\ c <= 128591)     \* U+1F600 - U+1F64F
    \/ (c >= 128640 /\ c <= 128767)     \* U+1F680 - U+1F6FF
    \/ (c >= 9728 /\ c <= 9983)         \* U+2600  - U+26FF
    \/ (c >= 9984 /\ c <= 10175)        \* U+2700  - U+27BF
    \/ (c >= 129280 /\ c <= 129535)     \* U+1F900 - U+1F9FF
    \/ (c >= 127456 /\ c <= 127487)     \* U+1F1E0 - U+1F1FF

\* String.prototype.trim's white space (the code points the model uses).
WhiteSpace(c) == c \in {9, 10, 11, 12, 13, 32, 160, 65279}

RECURSIVE TrimLeft(_)
TrimLeft(s) ==
    IF s = <<>> THEN <<>>
    ELSE IF WhiteSpace(Head(s)) THEN TrimLeft(Tail(s)) ELSE s

RECURSIVE TrimRight(_)
TrimRight(s) ==
    IF s = <<>> THEN <<>>
    ELSE IF WhiteSpace(s[Len(s)]) THEN TrimRight(SubSeq(s, 1, Len(s) - 1)) ELSE s

Trim(s) == TrimRight(TrimLeft(s))

\* field.name.replace(/[...]/gu, '').trim()
CleanName(name) == Trim(SelectSeq(name, LAMBDA c : ~Pictographic(c)))

(***************************************************************************)
(* The static mapping table and the coercions: sync.js lines 220-318.      *)
(***************************************************************************)
\* fieldMap: one entry per known clean name.  column is <<>> where the
\* source gives none.  transform names the entry's arrow function:
\*   String   (value) => String(value)
\*   Date     (value) => value ? new Date(value) : null
\*   Number   (value) => typeof value === 'number' ? value : null
\*   ParseInt (value) => parseInt(value, 10)
fieldMap == {
    \* "Status Updates" -> column "status_updates"
    [key |-> <<83, 116, 97, 116, 117, 115, 32, 85, 112, 100, 97, 116, 101, 115>>,
     column |-> <<115, 116, 97, 116, 117, 115, 95, 117, 112, 100, 97, 116, 101, 115>>, type |-> "text", transform |-> "String"],
    \* "Client" -> column "client"
    [key |-> <<67, 108, 105, 101, 110, 116>>,
     column |-> <<99, 108, 105, 101, 110, 116>>, type |-> "text", transform |-> "String"],
    \* "Start Job!" -> column "start_job"
    [key |-> <<83, 116, 97, 114, 116, 32, 74, 111, 98, 33>>,
     column |-> <<115, 116, 97, 114, 116, 95, 106, 111, 98>>, type |-> "timestamp", transform |-> "Date"],
    \* "Est. Revenue" -> column "est_revenue"
    [key |-> <<69, 115, 116, 46, 32, 82, 101, 118, 101, 110, 117, 101>>,
     column |-> <<101, 115, 116, 95, 114, 101, 118, 101, 110, 117, 101>>, type |-> "decimal", transform |-> "Number"],
    \* "Est. Cost" -> column "est_cost"
    [key |-> <<69, 115, 116, 46, 32, 67, 111, 115, 116>>,
     column |-> <<101, 115, 116, 95, 99, 111, 115, 116>>, type |-> "decimal", transform |-> "Number"],
    \* "Reason for Closed" -> column "reason_for_closed"
    [key |-> <<82, 101, 97, 115, 111, 110, 32, 102, 111, 114, 32, 67, 108, 111, 115, 101, 100>>,
     column |-> <<114, 101, 97, 115, 111, 110, 95, 102, 111, 114, 95, 99, 108, 111, 115, 101, 100>>, type |-> "text", transform |-> "String"],
    \* "Job Name" -> column "job_name"
    [key |-> <<74, 111, 98, 32, 78, 97, 109, 101>>,
     column |-> <<106, 111, 98, 95, 110, 97, 109, 101>>, type |-> "text", transform |-> "String"],
    \* "Milestone Date" -> column "milestone_date"
    [key |-> <<77, 105, 108, 101, 115, 116, 111, 110, 101, 32, 68, 97, 116, 101>>,
     column |-> <<109, 105, 108, 101, 115, 116, 111, 110, 101, 95, 100, 97, 116, 101>>, type |-> "timestamp", transform |-> "Date"],
    \* "Hours per Day" -> column "hours_per_day"
    [key |-> <<72, 111, 117, 114, 115, 32, 112, 101, 114, 32, 68, 97, 121>>,
     column |-> <<104, 111, 117, 114, 115, 95, 112, 101, 114, 95, 100, 97, 121>>, type |-> "integer", transform |-> "ParseInt"],
    \* "Expected Revenue" (no column: kept in the value bag under its clean name)
    [key |-> <<69, 120, 112, 101, 99, 116, 101, 100, 32, 82, 101, 118, 101, 110, 117, 101>>,
     column |-> <<>>, type |-> "decimal", transform |-> "Number"],
    \* "Current Fee" (no column: kept in the value bag under its clean name)
    [key |-> <<67, 117, 114, 114, 101, 110, 116, 32, 70, 101, 101>>,
     column |-> <<>>, type |-> "decimal", transform |-> "Number"],
    \* "Fee" (no column: kept in the value bag under its clean name)
    [key |-> <<70, 101, 101>>,
     column |-> <<>>, type |-> "decimal", transform |-> "Number"],
    \* "Time Left" (no column: kept in the value bag under its clean name)
    [key |-> <<84, 105, 109, 101, 32, 76, 101, 102, 116>>,
     column |-> <<>>, type |-> "text", transform |-> "String"],
    \* "Estimated Fee" (no column: kept in the value bag under its clean name)
    [key |-> <<69, 115, 116, 105, 109, 97, 116, 101, 100, 32, 70, 101, 101>>,
     column |-> <<>>, type |-> "decimal", transform |-> "Number"],
    \* "Update Email" (no column: kept in the value bag under its clean name)
    [key |-> <<85, 112, 100, 97, 116, 101, 32, 69, 109, 97, 105, 108>>,
     column |-> <<>>, type |-> "text", transform |-> "String"],
    \* "Job Budget" (no column: kept in the value bag under its clean name)
    [key |-> <<74, 111, 98, 32, 66, 117, 100, 103, 101, 116>>,
     column |-> <<>>, type |-> "decimal", transform |-> "Number"]
    }

\* mapFieldName(cleanName): the table entry, or null.
mapFieldName(cleanName) ==
    IF \E e \in fieldMap : e.key = cleanName
    THEN LET mapping == CHOOSE e \in fieldMap : e.key = cleanName
         IN  [k |-> "mapping",
              name |-> IF mapping.column # <<>> THEN mapping.column ELSE cleanName,
              type |-> mapping.type,
              transform |-> mapping.transform]
    ELSE NoMapping

\* Decimal digits of the numbers the model uses, for String(n) and parseInt.
Digits == <<"0", "1", "2", "3", "4", "5", "6", "7", "8", "9">>

\* JavaScript truthiness of a field value.
Truthy(v) ==
    CASE v.k = "null" -> FALSE
      [] v.k = "nan" -> FALSE
      [] v.k = "str" -> v.s # ""
      [] v.k = "num" -> v.n # 0
      [] OTHER -> TRUE

\* The four arrow functions of fieldMap, applied to a value.
Transform(kind, v) ==
    CASE kind = "String" ->
            IF v.k = "num" THEN JsStr(Digits[v.n + 1])
            ELSE IF v.k = "str" THEN v
            ELSE JsStr(v.k)
      [] kind = "Date" -> IF Truthy(v) THEN JsDate(v) ELSE JsNull
      [] kind = "Number" -> IF v.k = "num" THEN v ELSE JsNull
      [] kind = "ParseInt" ->
            IF v.k = "num" THEN v
            ELSE IF v.k = "str" /\ \E i \in 1..Len(Digits) : Digits[i] = v.s
                 THEN JsNum((CHOOSE i \in 1..Len(Digits) : Digits[i] = v.s) - 1)
                 ELSE JsNaN

\* A normaliser that coerces to text whether or not it was given a mapping.
normalizeFieldValueAlways(field, mapping) == Transform("String", field.value)

\* normalizeFieldValue(field, mapping): null unless a mapping with a
\* transform is passed in.
normalizeFieldValue(field, mapping) ==
    IF mapping = Undefined \/ mapping = NoMapping THEN JsNull
    ELSE Transform(mapping.transform, field.value)

\* The property key JavaScript derives from the value used as a key in
\* fieldData.fieldValues[mappedField]: mapFieldName returns an object, and
\* an object used as a key is converted with toString().
PropertyKey(mappedField) ==
    IF mappedField.k = "mapping" THEN ObjectObject ELSE <<>>

(***************************************************************************)
(* The worlds outside the service: task ids, upstream task details, the    *)
(* remote type catalog.                                                    *)
(***************************************************************************)
Tasks == {"t1", "t2"}
TypeIds == {"ty1", "ty2"}
Procs == {"p1", "p2"}

\* Custom-field entries as the detail endpoint returns them.  name is <<>>
\* for an entry without a name.
FieldClientEmoji ==
    [id |-> "f1", name |-> ClientEmoji, type |-> "short_text", type_config |-> NULL,
     value |-> JsStr("Acme")]
FieldRandomNotes ==
    [id |-> "f2", name |-> RandomNotes, type |-> "text", type_config |-> NULL,
     value |-> JsStr("note")]
FieldClient ==
    [id |-> "f3", name |-> Client, type |-> "short_text", type_config |-> "opts",
     value |-> JsStr("Beta")]
FieldNoName ==
    [id |-> "f4", name |-> <<>>, type |-> "text", type_config |-> NULL,
     value |-> JsStr("x")]
FieldHours ==
    [id |-> "f5", name |-> HoursPerDay, type |-> "number", type_config |-> NULL,
     value |-> JsNum(8)]
FieldFeeNoValue ==
    [id |-> "f6", name |-> Fee, type |-> "currency", type_config |-> NULL,
     value |-> JsNull]

NoStatus == [k |-> "null", status |-> ""]
StatusObj(s) == [k |-> "obj", status |-> s]
NoType == [id |-> NULL, name |-> NULL]

\* The task details the workspace can hold for a task (the response body of
\* GET /task/:id after getTaskDetails' defaults are applied).
DetailAlpha ==
    [name |-> "Alpha", text_content |-> "alpha text", description |-> "alpha desc",
     status |-> StatusObj("open"), parent |-> NULL,
     custom_type |-> [id |-> "ty1", name |-> "Bug"],
     custom_fields |-> <<FieldClientEmoji, FieldRandomNotes, FieldHours>>]
DetailGamma ==
    [name |-> NULL, text_content |-> NULL, description |-> "gamma desc",
     status |-> NoStatus, parent |-> "t2",
     custom_type |-> NoType,
     custom_fields |-> <<FieldClient, FieldNoName, FieldClientEmoji, FieldFeeNoValue>>]
Details == {DetailAlpha, DetailGamma}

\* The remote catalogs of custom task types: id -> name, for a set of ids.
TypeName(id) == IF id = "ty1" THEN "Bug" ELSE "Epic"
Catalogs == {[i \in S |-> TypeName(i)] : S \in SUBSET TypeIds}

(***************************************************************************)
(* Building fieldData: sync.js lines 124-178.                              *)
(***************************************************************************)
EmptyMap == <<>>

\* SQL NULL in a JSONB column.
NullMap == [null |-> TRUE]

\* A loop body that records a definition only for mapped names and stores
\* every non-null value under its clean name.
ProcessFieldValueAll(acc, field, now) ==
    IF field.name = <<>> THEN acc
    ELSE LET cleanName == CleanName(field.name)
         IN  [customFields |->
                 IF mapFieldName(cleanName) # NoMapping
                 THEN (cleanName :> [id |-> field.id, type |-> field.type,
                                     config |-> "{}", original_name |-> field.name])
                      @@ acc.customFields
                 ELSE acc.customFields,
              fieldValues |->
                 IF field.value # JsNull
                 THEN (cleanName :> [value |-> field.value, updated_at |-> now,
                                     field_id |-> field.id,
                                     original_name |-> field.name])
                      @@ acc.fieldValues
                 ELSE acc.fieldValues]

\* A loop body that keeps the definition a clean name already has.
ProcessFieldKeepFirst(acc, field, now) ==
    IF field.name = <<>> THEN acc
    ELSE LET cleanName == CleanName(field.name)
             definition == [id |-> field.id, type |-> field.type,
                            config |-> IF field.type_config = NULL THEN "{}"
                                       ELSE field.type_config,
                            original_name |-> field.name]
             normalizedValue == normalizeFieldValue(field, Undefined)
             mappedField == mapFieldName(cleanName)
         IN  [customFields |-> acc.customFields @@ (cleanName :> definition),
              fieldValues |->
                 IF /\ field.value # JsNull
                    /\ normalizedValue # JsNull
                    /\ mappedField # NoMapping
                 THEN (PropertyKey(mappedField) :>
                          [value |-> normalizedValue, updated_at |-> now,
                           field_id |-> field.id, original_name |-> field.name])
                      @@ acc.fieldValues
                 ELSE acc.fieldValues]

\* The body of the for-loop over taskDetails.custom_fields (lines 144-175).
\* normalizeFieldValue is called with the field alone (line 162).
ProcessField(acc, field, now) ==
    IF field.name = <<>> THEN acc
    ELSE LET cleanName == CleanName(field.name)
             definition == [id |-> field.id, type |-> field.type,
                            config |-> IF field.type_config = NULL THEN "{}"
                                       ELSE field.type_config,
                            original_name |-> field.name]
             normalizedValue == normalizeFieldValue(field, Undefined)
             mappedField == mapFieldName(cleanName)
         IN  [customFields |-> (cleanName :> definition) @@ acc.customFields,
              fieldValues |->
                 IF /\ field.value # JsNull
                    /\ normalizedValue # JsNull
                    /\ mappedField # NoMapping
                 THEN (PropertyKey(mappedField) :>
                          [value |-> normalizedValue, updated_at |-> now,
                           field_id |-> field.id, original_name |-> field.name])
                      @@ acc.fieldValues
                 ELSE acc.fieldValues]

RECURSIVE ProcessFields(_, _, _)
ProcessFields(acc, fields, now) ==
    IF fields = <<>> THEN acc
    ELSE ProcessFields(ProcessField(acc, Head(fields), now), Tail(fields), now)

\* taskDetails.status?.status || taskDetails.status, as the text the driver
\* sends for it (an object parameter is sent as its JSON text).
StatusJson(st) == "{\"status\":\"" \o st.status \o "\"}"
FieldDataStatus(st) ==
    IF st.k = "null" THEN NULL
    ELSE IF st.status # "" THEN st.status
    ELSE StatusJson(st)

\* fieldData as handed to updateTaskCustomFields (lines 124-134, 142-178).
BuildFieldData(taskDetails, now) ==
    LET maps == ProcessFields([customFields |-> EmptyMap, fieldValues |-> EmptyMap],
                              taskDetails.custom_fields, now)
    IN  [customFields |-> maps.customFields,
         relationships |-> [parent_id |-> taskDetails.parent,
                            custom_type |-> taskDetails.custom_type.name],
         fieldValues |-> maps.fieldValues,
         name |-> taskDetails.name,
         status |-> FieldDataStatus(taskDetails.status),
         description |-> taskDetails.description]

(***************************************************************************)
(* Storage: the clickup_task and task_types tables.                        *)
(***************************************************************************)
NoRow == [absent |-> TRUE]

\* A provenance tag that is the same for every task.
ManualTagConstant(id) == "manual"

\* The synthesized provenance tag `manual_${taskId}` (sync.js line 61).
ManualTag(id) == "manual_" \o id

\* The row the placeholder INSERT of sync.js lines 40-74 writes.
\* Parameter $7 is taskDetails.status itself, sent as its JSON text.
PlaceholderRow(id, taskDetails, now) ==
    [_airbyte_raw_id |-> ManualTag(id),
     _airbyte_extracted_at |-> now,
     updated_at |-> now,
     name |-> taskDetails.name,
     text_content |-> taskDetails.text_content,
     description |-> taskDetails.description,
     status |-> IF taskDetails.status.k = "null" THEN NULL
                ELSE StatusJson(taskDetails.status),
     custom_fields |-> EmptyMap,
     relationships |-> EmptyMap,
     field_values |-> EmptyMap,
     task_type_id |-> NULL,
     task_type_name |-> NULL,
     parent_id |-> NULL]

\* A parameter that sends NULL for a document with no entries.
DocumentParamNullIfEmpty(doc) == IF doc = EmptyMap THEN NullMap ELSE doc

\* The document a JSONB column holds for the parameter
\* JSON.stringify(doc || {}) (part_002 lines 300-303): an object is sent as
\* it is, also when empty, and {} stands in for a missing one.
DocumentParam(doc) == IF doc = NullMap THEN EmptyMap ELSE doc

\* An overwrite in place of COALESCE: the new value wins even when null.
CoalesceOverwrite(new, old) == new

\* SQL COALESCE(new, old).
Coalesce(new, old) == IF new # NULL THEN new ELSE old

\* An update that merges the new documents into the stored ones key by key.
UpdatedRowMerge(row, fd, now) ==
    [row EXCEPT !.custom_fields = fd.customFields @@ row.custom_fields,
                !.relationships = fd.relationships,
                !.field_values = fd.fieldValues @@ row.field_values,
                !.status = Coalesce(fd.status, row.status),
                !.name = Coalesce(fd.name, row.name),
                !.description = Coalesce(fd.description, row.description),
                !._airbyte_extracted_at = now,
                !.updated_at = now]

\* The row after the UPDATE of updateTaskCustomFields (db lines 284-308).
UpdatedRow(row, fd, now) ==
    [row EXCEPT !.custom_fields = DocumentParam(fd.customFields),
                !.relationships = DocumentParam(fd.relationships),
                !.field_values = DocumentParam(fd.fieldValues),
                !.status = Coalesce(fd.status, row.status),
                !.name = Coalesce(fd.name, row.name),
                !.description = Coalesce(fd.description, row.description),
                !._airbyte_extracted_at = now,
                !.updated_at = now]

\* A link that writes the type id and leaves the denormalized name alone.
LinkedRowIdOnly(row, typeId, types) == [row EXCEPT !.task_type_id = typeId]

\* The row after the UPDATE of updateTaskTypeRelationships (lines 60-67):
\* the name is read from task_types by a scalar subquery, NULL if no row.
LinkedRow(row, typeId, types) ==
    [row EXCEPT !.task_type_id = typeId,
                !.task_type_name = IF typeId \in DOMAIN types THEN types[typeId].name
                                   ELSE NULL]

\* A transaction's write set on task_types: rows upserted, ids deleted.
NoTx == [open |-> FALSE, upserts |-> <<>>, deletes |-> {}]
OpenTx == [open |-> TRUE, upserts |-> <<>>, deletes |-> {}]

\* What the table holds once the write set is applied.
Applied(table, t) ==
    [i \in ((DOMAIN table) \ t.deletes) \cup DOMAIN t.upserts |->
        IF i \in DOMAIN t.upserts THEN t.upserts[i] ELSE table[i]]

\* A catch block that commits what the transaction wrote so far.
RollbackKeepsWrites(table, t) == Applied(table, t)

\* ROLLBACK: the write set is discarded.
Rollback(table, t) == table

\* COMMIT: the write set becomes the table.
Commit(table, t) == Applied(table, t)

\* The ids the prune DELETE of syncTaskTypes removes (part_001 lines 36-42):
\* every stored id not in the fetched list, and nothing when the list is empty.
PruneSet(table, types) ==
    IF DOMAIN types # {} THEN (DOMAIN table) \ DOMAIN types ELSE {}

\* The task_types rows the upsert loop writes (part_001 lines 14-34).
UpsertRows(types) == [i \in DOMAIN types |-> [name |-> types[i]]]

(***************************************************************************)
(* State.                                                                  *)
(***************************************************************************)
VARIABLES
    upstream,       \* the workspace: task id -> its detail, or NotFound
    catalog,        \* the workspace's custom task types: id -> name
    clock,          \* the wall clock
    rows,           \* table clickup_task: id -> row, or NoRow
    task_types,     \* table task_types: id -> [name]
    pc,             \* per invocation: where syncTaskCustomFields stands
    taskId,         \* per invocation: its argument
    attempt,        \* per invocation: retryRequest's loop counter i
    taskDetails,    \* per invocation: the detail it fetched
    types,          \* per invocation: the catalog syncTaskTypes fetched
    tx,             \* per invocation: syncTaskTypes' open transaction
    fieldData,      \* per invocation: the fieldData it built
    result,         \* per invocation: what it returned
    lastSync,       \* history: per task, the invocation and the detail of the
                    \* last committed whole-map update, and whether the
                    \* update before it was made from the same detail
    overtaken,      \* history: per task, the invocations that hold a detail
                    \* fetched before the importer's latest write, which is
                    \* still what the row holds
    runs,           \* how many invocations have started
    events,         \* how many times the workspace and the importer have acted
    responses,      \* history: per invocation, the statuses its detail fetch was answered with
    response,       \* per invocation: what POST /webhook answered the delivery with
    call,           \* history: the last call of a storage operation made from outside a sync, and its outcome
    field_changes,  \* table field_changes: the records appended, oldest first
    checkedOut,     \* the pool: how many connections are checked out
    manual,         \* the manual-sync route: where its relationship sync stands, the detail that sync fetched, the answer sent, and (history) the tasks that had a row when the request arrived
    listing,        \* the remote listing call (getListTasks, getSpaceTasks) in progress or last finished
    waits           \* history: per invocation, the waits (ms) of its detail fetch's retryRequest

vars == <<upstream, catalog, clock, rows, task_types, pc, taskId, attempt,
          taskDetails, types, tx, fieldData, result, lastSync, overtaken,
          runs, events, responses, response, call, field_changes, checkedOut, manual, listing, waits>>

env == <<upstream, catalog, clock>>
locals == <<taskId, attempt, taskDetails, types, tx, fieldData, result>>
history == <<lastSync, overtaken>>
budget == <<runs, events>>

NotFound == [missing |-> TRUE]
NoDetail == [none |-> TRUE]
NoFieldData == [none |-> TRUE]
NoResult == [none |-> TRUE]
NoSync == [none |-> TRUE]
NoResponse == [none |-> TRUE]
NoCall == [op |-> "none"]
NoListing == [op |-> "none", out |-> [none |-> TRUE]]

NoManual == [rel |-> "idle", detail |-> [none |-> TRUE], answer |-> [none |-> TRUE], had |-> {}]

\* retryRequest's `retries` as getTaskDetails passes it (clickup.js line 80).
Retries == 3

\* The statuses a failing remote call answers with, besides 404.
ErrorStatuses == {502, 429, 500}

Success(task) == [success |-> TRUE, error |-> NULL, task |-> task]
Failure(error) == [success |-> FALSE, error |-> error, task |-> "none"]

\* The row the importer writes for a task: its own provenance and the
\* descriptive columns as the workspace has them now.
ImportedRow(t, old, d, now) ==
    [(IF old = NoRow THEN PlaceholderRow(t, d, now) ELSE old)
        EXCEPT !._airbyte_raw_id = "airbyte_" \o t,
               !._airbyte_extracted_at = now,
               !.name = d.name,
               !.text_content = d.text_content,
               !.description = d.description,
               !.status = FieldDataStatus(d.status)]

Init ==
    /\ upstream \in {u \in [Tasks -> Details \cup {NotFound}] : u["t2"] = DetailGamma}
    /\ catalog \in Catalogs
    /\ clock = 0
    /\ rows = [t \in Tasks |-> NoRow]
    /\ task_types = <<>>
    /\ pc = [p \in Procs |-> "idle"]
    /\ taskId = [p \in Procs |-> NULL]
    /\ attempt = [p \in Procs |-> 0]
    /\ taskDetails = [p \in Procs |-> NoDetail]
    /\ types = [p \in Procs |-> <<>>]
    /\ tx = [p \in Procs |-> NoTx]
    /\ fieldData = [p \in Procs |-> NoFieldData]
    /\ result = [p \in Procs |-> NoResult]
    /\ lastSync = [t \in Tasks |-> NoSync]
    /\ overtaken = [t \in Tasks |-> {}]
    /\ runs = 0
    /\ events = 0
    /\ responses = [p \in Procs |-> <<>>]
    /\ waits = [p \in Procs |-> <<>>]
    /\ response = [p \in Procs |-> NoResponse]
    /\ call = NoCall
    /\ field_changes = <<>>
    /\ checkedOut = 0
    /\ manual = NoManual
    /\ listing = NoListing

(***************************************************************************)
(* The environment: the clock, the workspace, the importer.                *)
(***************************************************************************)
Tick ==
    /\ clock < MaxClock
    /\ clock' = clock + 1
    /\ UNCHANGED <<upstream, catalog, rows, task_types, pc, locals, history, budget, responses, response, call, field_changes, checkedOut, manual, listing, waits>>

\* A user edits, creates or deletes a task in the workspace.
UpstreamChange(t) ==
    /\ events < MaxEvents
    /\ events' = events + 1
    /\ \E d \in (Details \cup {NotFound}) \ {upstream[t]} :
          upstream' = [upstream EXCEPT ![t] = d]
    /\ UNCHANGED <<catalog, clock, rows, task_types, pc, locals, history, runs, responses, response, call, field_changes, checkedOut, manual, listing, waits>>

\* An admin edits the workspace's custom task types.
CatalogChange ==
    /\ events < MaxEvents
    /\ events' = events + 1
    /\ \E c \in Catalogs \ {catalog} : catalog' = c
    /\ UNCHANGED <<upstream, clock, rows, task_types, pc, locals, history, runs, responses, response, call, field_changes, checkedOut, manual, listing, waits>>

\* The invocations for task t that hold a fetched detail and have not yet
\* run their update.
HoldingDetail(t) ==
    {p \in Procs : taskId[p] = t /\ taskDetails[p] # NoDetail /\ pc[p] # "done"}

\* A pass of the bulk importer over one task.
ImporterWrite(t) ==
    /\ events < MaxEvents
    /\ events' = events + 1
    /\ upstream[t] # NotFound
    /\ rows' = [rows EXCEPT ![t] = ImportedRow(t, rows[t], upstream[t], clock)]
    /\ overtaken' = [overtaken EXCEPT ![t] = HoldingDetail(t)]
    /\ UNCHANGED <<env, task_types, pc, locals, lastSync, runs, responses, response, call, field_changes, checkedOut, manual, listing, waits>>

\* A finally block that is skipped when the operation returns early.
ReleasedUnlessReturnedEarly(exit) == IF exit = "return" THEN 0 ELSE 1

\* How many times client.release() runs when an operation leaves by the
\* given exit ("commit", "rollback" after an error, early "return"): the
\* finally block runs once on each (part_002 335-337, 406-408, 448-450,
\* 479-481, 758-760; part_001 50-52, 75-77).
Released(exit) == 1

\* The pool after an operation that connected and left by the given exit.
AfterOperation(n, exit) == n + 1 - Released(exit)

\* The rows cleanOldData's first DELETE removes (part_002 lines 422-426):
\* those last updated before NOW() minus the retention period.
OldRows(table, days, now) ==
    {t \in Tasks : table[t] # NoRow /\ table[t].updated_at < now - days}

\* A second DELETE that removes nothing.
OrphanedTypesNone(table, typeTable) == {}

\* The types cleanOldData's second DELETE removes (part_002 lines 429-437):
\* those no remaining task row refers to.
OrphanedTypes(table, typeTable) ==
    (DOMAIN typeTable) \
    {table[t].task_type_id : t \in {u \in Tasks : table[u] # NoRow}}

\* db.cleanOldData(daysToKeep) (part_002 lines 416-451): both DELETEs in one
\* transaction.  It waits for the rows an open catalog refresh has written.
cleanOldData(daysToKeep) ==
    /\ events < MaxEvents
    /\ events' = events + 1
    /\ LET gone == OldRows(rows, daysToKeep, clock)
           kept == [t \in Tasks |-> IF t \in gone THEN NoRow ELSE rows[t]]
           orphans == OrphanedTypes(kept, task_types)
       IN  /\ orphans \cap UNION {(DOMAIN tx[q].upserts) \cup tx[q].deletes : q \in Procs} = {}
           /\ rows' = kept
           /\ task_types' = [i \in (DOMAIN task_types) \ orphans |-> task_types[i]]
           /\ lastSync' = [t \in Tasks |-> IF t \in gone THEN NoSync ELSE lastSync[t]]
           /\ overtaken' = [t \in Tasks |-> IF t \in gone THEN {} ELSE overtaken[t]]
    /\ checkedOut' = AfterOperation(checkedOut, "commit")
    /\ UNCHANGED <<env, pc, locals, runs, responses, response, call, field_changes, manual, listing, waits>>

\* A statement of cleanOldData raised a storage error: the catch rolls the
\* transaction back, so neither DELETE leaves a trace, and rethrows; finally
\* releases the connection (part_002 lines 444-450).
cleanOldDataCatch ==
    /\ events < MaxEvents
    /\ events' = events + 1
    /\ rows' = rows
    /\ task_types' = task_types
    /\ checkedOut' = AfterOperation(checkedOut, "rollback")
    /\ UNCHANGED <<env, pc, locals, history, runs, responses, response, call,
                   field_changes, manual, listing, waits>>

(***************************************************************************)
(* The storage operations called from outside syncTaskCustomFields.  Each  *)
(* runs in one transaction and is one step.                                *)
(***************************************************************************)
\* The ids a caller can name as parent: a task, an id no row is ever stored
\* under, or none.
ParentIds == Tasks \cup {"t9", NULL}

\* The relationships objects updateTaskRelationships is called with
\* (sync.js lines 332-336): the parent id and the custom type's name.
Relationships == [parent_id : ParentIds, custom_type : {NULL, "Bug"}]

\* SELECT 1 FROM clickup_task WHERE id = $1 finds a row.
HasRow(table, id) == id \in DOMAIN table /\ table[id] # NoRow

\* A guard that takes the parent id as given.
GuardedParentIdUnchecked(table, parent_id) == parent_id

\* relationships.parent_id after the parent check of updateTaskRelationships
\* (part_002 lines 364-373): null when no row has that id.
GuardedParentId(table, parent_id) ==
    IF parent_id # NULL /\ ~HasRow(table, parent_id) THEN NULL ELSE parent_id

\* (SELECT id FROM task_types WHERE name = $3 LIMIT 1), part_002 lines 379-383.
TypeIdByName(typeTable, name) ==
    LET ids == {i \in DOMAIN typeTable : typeTable[i].name = name}
    IN  IF ids = {} THEN NULL ELSE CHOOSE i \in ids : TRUE

\* An UPDATE that also stamps the row with a provenance tag of its own.
RelatedRowRetagged(row, parent_id, typeId, now) ==
    [row EXCEPT !.parent_id = parent_id,
                !.task_type_id = typeId,
                !.updated_at = now,
                !._airbyte_raw_id = "relationships"]

\* The row after the UPDATE of updateTaskRelationships (part_002 lines 376-386).
RelatedRow(row, parent_id, typeId, now) ==
    [row EXCEPT !.parent_id = parent_id,
                !.task_type_id = typeId,
                !.updated_at = now]

\* An updater that goes on to its UPDATE whether or not the task has a row.
taskExistsUnchecked(table, t) == TRUE

\* The first check of updateTaskRelationships (part_002 lines 352-361):
\* SELECT 1 FROM clickup_task WHERE id = $1 returned a row.
taskExists(table, t) == HasRow(table, t)

\* db.updateTaskRelationships(taskId, relationships), part_002 lines 346-409.
\* No row for the task: ROLLBACK and null.  Otherwise the parent check, the
\* UPDATE and COMMIT, and the updated row is returned.  The UPDATE names
\* the row by WHERE id = $1 and so writes to an existing row only; the
\* foreign key of task_type_id (part_002 lines 26-27) makes it wait for a
\* transaction that is deleting the type it refers to.
updateTaskRelationships(t, relationships) ==
    IF ~taskExists(rows, t)
    THEN /\ rows' = rows
         /\ call' = [op |-> "updateTaskRelationships", taskId |-> t,
                     given |-> relationships.parent_id, was |-> NULL,
                     out |-> "null"]
         /\ checkedOut' = AfterOperation(checkedOut, "return")
    ELSE /\ TypeIdByName(task_types, relationships.custom_type)
               \notin UNION {tx[q].deletes : q \in Procs}
         /\ rows' = IF HasRow(rows, t)
                    THEN [rows EXCEPT ![t] =
                            RelatedRow(rows[t],
                                       GuardedParentId(rows, relationships.parent_id),
                                       TypeIdByName(task_types, relationships.custom_type),
                                       clock)]
                    ELSE rows
         /\ call' = [op |-> "updateTaskRelationships", taskId |-> t,
                     given |-> relationships.parent_id,
                     was |-> IF HasRow(rows, t) THEN rows[t].parent_id ELSE NULL,
                     out |-> "row"]
         /\ checkedOut' = AfterOperation(checkedOut, "commit")

\* A caller outside the routes calls db.updateTaskRelationships.
\* SQLSTATE 23503, the code the catch of updateTaskRelationships tests
\* (part_002 line 400).
ForeignKeyViolation == "23503"

\* The codes a failing statement may carry: the foreign-key violation, a
\* detected deadlock, a lost connection.
StorageErrorCodes == {ForeignKeyViolation, "40P01", "08006"}

\* How the catch of updateTaskRelationships would end if it rethrew every
\* error.
ReportedAlwaysThrown(code) == "throw"

\* How the catch of updateTaskRelationships ends for an error with the given
\* code (part_002 lines 400-405): null for a foreign-key violation, the
\* error rethrown for any other.
Reported(code) == IF code = ForeignKeyViolation THEN "null" ELSE "throw"

\* A statement of updateTaskRelationships raised a storage error with the
\* given code: the catch rolls the transaction back, so nothing the
\* operation wrote remains, and ends as Reported says; finally releases the
\* connection (part_002 lines 398-408).  A foreign-key violation can only
\* come from the UPDATE, which is reached when the task has a row.
updateTaskRelationshipsCatch(t, relationships, code) ==
    /\ code = ForeignKeyViolation => HasRow(rows, t)
    /\ rows' = rows
    /\ call' = [op |-> "updateTaskRelationships", taskId |-> t,
                given |-> relationships.parent_id,
                was |-> IF HasRow(rows, t) THEN rows[t].parent_id ELSE NULL,
                out |-> Reported(code), code |-> code]
    /\ checkedOut' = AfterOperation(checkedOut, "rollback")

RelationshipsCall(t, relationships) ==
    /\ runs < MaxRuns
    /\ runs' = runs + 1
    /\ \/ updateTaskRelationships(t, relationships)
       \/ \E code \in StorageErrorCodes :
             updateTaskRelationshipsCatch(t, relationships, code)
    /\ UNCHANGED <<env, task_types, pc, locals, history, events, responses, response, field_changes, manual, listing, waits>>

\* db.getRecentChanges(minutes), part_002 lines 458-482: the ids of the rows
\* updated within the window, read on a connection of its own.
getRecentChanges(minutes) ==
    /\ events < MaxEvents
    /\ events' = events + 1
    /\ call' = [op |-> "getRecentChanges", taskId |-> NULL, given |-> minutes,
                was |-> NULL,
                out |-> {t \in Tasks : HasRow(rows, t) /\ rows[t].updated_at >= clock - minutes}]
    /\ checkedOut' = AfterOperation(checkedOut, "commit")
    /\ UNCHANGED <<env, rows, task_types, pc, locals, history, runs, responses,
                   response, field_changes, manual, listing, waits>>

\* db.query(text, params), part_002 lines 754-761, for the statement it is
\* called with in sync.js lines 375-384, CREATE TABLE IF NOT EXISTS
\* task_types: the table exists, nothing is written.
query(text) ==
    /\ events < MaxEvents
    /\ events' = events + 1
    /\ call' = [op |-> "query", taskId |-> NULL, given |-> text, was |-> NULL,
                out |-> "ok"]
    /\ checkedOut' = AfterOperation(checkedOut, "commit")
    /\ UNCHANGED <<env, rows, task_types, pc, locals, history, runs, responses,
                   response, field_changes, manual, listing, waits>>

\* A JavaScript object: its properties <<key, value>> in insertion order.
JsObj(props) == [k |-> "obj", props |-> props]

\* The objects updateTaskField is given for a document column.
Objects ==
    { <<>>,
      << <<"id", "f1">>, <<"name", "Client">> >>,
      << <<"name", "Client">>, <<"id", "f1">> >> }

\* The calls of updateTaskField: a text for a TEXT column, an object for a
\* JSONB column.
Saves ==
    {[fieldName |-> "name", newValue |-> JsStr(s)] : s \in {"A", "B"}}
    \cup {[fieldName |-> "custom_fields", newValue |-> JsObj(o)] : o \in Objects}

\* The order jsonb keeps an object's keys in: shorter keys first, then by
\* bytes.
JsonbKeyOrder == <<"id", "name">>

\* A JSONB column as the driver hands it to JavaScript: an object whose
\* properties come in jsonb's key order, or null.
JsonbRead(doc) ==
    IF doc = NullMap THEN JsNull
    ELSE JsObj([i \in 1..Len(SelectSeq(JsonbKeyOrder, LAMBDA key : key \in DOMAIN doc)) |->
                  LET key == SelectSeq(JsonbKeyOrder, LAMBDA x : x \in DOMAIN doc)[i]
                  IN  <<key, doc[key]>>])

\* A JavaScript object as a JSONB column stores it: key -> value.
JsonbWrite(v) ==
    IF v.k = "null" THEN NullMap
    ELSE [key \in {v.props[i][1] : i \in DOMAIN v.props} |->
            (CHOOSE pr \in {v.props[i] : i \in DOMAIN v.props} : pr[1] = key)[2]]

\* currentResult.rows[0]?.[fieldName] (part_002 line 229) for a stored row.
CurrentValue(row, fieldName) ==
    IF fieldName = "custom_fields" THEN JsonbRead(row.custom_fields)
    ELSE IF row[fieldName] = NULL THEN JsNull ELSE JsStr(row[fieldName])

\* The column value the UPDATE parameter $1 becomes (part_002 lines 241-245).
ColumnValue(fieldName, newValue) ==
    IF fieldName = "custom_fields" THEN JsonbWrite(newValue)
    ELSE IF newValue.k = "null" THEN NULL ELSE newValue.s

RECURSIVE PropsText(_)
\* The properties of an object as JSON text, in the object's order.
PropsText(props) ==
    IF props = <<>> THEN ""
    ELSE "\"" \o props[1][1] \o "\":\"" \o props[1][2] \o "\""
         \o (IF Len(props) > 1 THEN "," ELSE "") \o PropsText(Tail(props))

\* JSON.stringify (part_002 lines 232, 237).
stringify(v) ==
    CASE v.k = "null" -> "null"
      [] v.k = "str" -> "\"" \o v.s \o "\""
      [] v.k = "obj" -> "{" \o PropsText(v.props) \o "}"

\* updateTaskField(taskId, fieldName, newValue, client), part_002 lines
\* 222-248, for a task that has a row: when the texts of the stored and the
\* given value differ, a record is appended and the column is written.
updateTaskField(t, fieldName, newValue) ==
    /\ runs < MaxRuns
    /\ runs' = runs + 1
    /\ HasRow(rows, t)
    /\ LET currentValue == CurrentValue(rows[t], fieldName)
       IN  IF stringify(currentValue) # stringify(newValue)
           THEN /\ field_changes' =
                      Append(field_changes,
                             [task_id |-> t, field_name |-> fieldName,
                              old_value |-> stringify(currentValue),
                              new_value |-> stringify(newValue)])
                /\ rows' = [rows EXCEPT ![t] =
                              [rows[t] EXCEPT ![fieldName] = ColumnValue(fieldName, newValue),
                                              !.updated_at = clock]]
           ELSE UNCHANGED <<field_changes, rows>>
    /\ call' = [op |-> "updateTaskField", taskId |-> t, given |-> newValue,
                was |-> CurrentValue(rows[t], fieldName), out |-> fieldName]
    /\ UNCHANGED <<env, task_types, pc, locals, history, events, responses, response, checkedOut, manual, listing, waits>>

(***************************************************************************)
(* SyncService.syncTaskCustomFields, one action per await.                 *)
(***************************************************************************)
\* error.message of a failed remote call.
HttpMessage(status) ==
    CASE status = 502 -> "Request failed with status code 502"
      [] status = 429 -> "Request failed with status code 429"
      [] status = 404 -> "Request failed with status code 404"
      [] OTHER -> "Request failed with status code 500"

\* A sync without the outer catch: the error leaves the invocation.
Raised(p, message) ==
    /\ pc' = [pc EXCEPT ![p] = "raised"]
    /\ result' = result

\* The outer catch (sync.js lines 204-216): the invocation ends in failure.
Caught(p, message) ==
    /\ pc' = [pc EXCEPT ![p] = "done"]
    /\ result' = [result EXCEPT ![p] = Failure(message)]

\* What POST /webhook sends once the awaited sync has settled
\* (index.js lines 25-28): the value syncTaskCustomFields resolved with is
\* dropped and the answer is 200 { success: true }.  The sync catches its
\* own errors (sync.js 204-216), so the route's catch (29-32) is not entered.
WebhookResponse(outcome) ==
    [status |-> 200, success |-> TRUE, error |-> NULL, taskId |-> NULL]

\* A webhook delivery for task t arrives (event taskUpdated or taskCreated)
\* and the route calls syncTaskCustomFields(t).
Start(p, t) ==
    /\ pc[p] = "idle"
    /\ runs < MaxRuns
    /\ runs' = runs + 1
    /\ pc' = [pc EXCEPT ![p] = "fetch"]
    /\ taskId' = [taskId EXCEPT ![p] = t]
    /\ attempt' = [attempt EXCEPT ![p] = 0]
    /\ response' = [response EXCEPT ![p] = NoResponse]
    /\ UNCHANGED <<env, rows, task_types, taskDetails, types, tx, fieldData,
                   result, history, events, responses, call, field_changes, checkedOut, manual, listing, waits>>

\* The statuses the remote can answer GET /task/:id with.
Answers(t) ==
    ErrorStatuses \cup (IF upstream[t] = NotFound THEN {404} ELSE {200})

\* A client that lets every answer below 500 through as a response.
RejectsServerErrors(status) == status >= 500

\* The HTTP client rejects (throws on) every answer outside 2xx: the client
\* of clickup.js lines 13-19 sets no validateStatus of its own.
Rejects(status) == status < 200 \/ status >= 300

\* A retry loop that retries whatever the error was.
ShouldRetryAnyError(status, i) == i < Retries - 1

\* A retry loop that allows one attempt more.
ShouldRetryOnceMore(status, i) == status \in {502, 429} /\ i < Retries

\* The base delay getTaskDetails and getListTasks hand to retryRequest, in
\* milliseconds (clickup.js lines 78-82, 193-203).
BaseDelay == 2000

\* A retry loop that waits the base delay every time.
BackoffFlat(delay, i) == delay

\* The wait of retryRequest after its attempt of index i failed and before
\* the next one (clickup.js line 37).
Backoff(delay, i) == delay * (i + 1)

\* retryRequest's condition for another attempt (clickup.js line 35).
ShouldRetry(status, i) == status \in {502, 429} /\ i < Retries - 1

\* What getTaskDetails returns for a response body (clickup.js 87-97): the
\* body with custom_fields, parent and custom_type defaulted.  The body of
\* an answer for a task the workspace does not have holds no task field.
ResponseDetail(body) ==
    IF body = NotFound
    THEN [name |-> NULL, text_content |-> NULL, description |-> NULL,
          status |-> NoStatus, parent |-> NULL, custom_type |-> NoType,
          custom_fields |-> <<>>]
    ELSE body

\* getTaskDetails: an attempt of retryRequest is answered with a response
\* the client lets through (clickup.js 78-97).
FetchOk(p) ==
    /\ pc[p] = "fetch"
    /\ \E status \in Answers(taskId[p]) :
          /\ ~Rejects(status)
          /\ taskDetails' = [taskDetails EXCEPT ![p] = ResponseDetail(upstream[taskId[p]])]
    /\ pc' = [pc EXCEPT ![p] = "check"]
    /\ responses' = [responses EXCEPT ![p] = <<>>]
    /\ waits' = [waits EXCEPT ![p] = <<>>]
    /\ UNCHANGED <<env, rows, task_types, taskId, attempt, types, tx, fieldData,
                   result, history, budget, response, call, field_changes, checkedOut, manual, listing>>

\* getTaskDetails: an attempt fails (clickup.js 33-41, 99-107): the loop
\* goes round again or the error is thrown on, through getTaskDetails'
\* catch, into the catch of the sync.
FetchError(p) ==
    /\ pc[p] = "fetch"
    /\ \E status \in Answers(taskId[p]) :
          /\ Rejects(status)
          /\ responses' = [responses EXCEPT ![p] = Append(responses[p], status)]
          /\ IF ShouldRetry(status, attempt[p])
             THEN /\ waits' = [waits EXCEPT ![p] =
                                  Append(waits[p], Backoff(BaseDelay, attempt[p]))]
                  /\ attempt' = [attempt EXCEPT ![p] = attempt[p] + 1]
                  /\ UNCHANGED <<pc, result>>
             ELSE /\ Caught(p, HttpMessage(status))
                  /\ UNCHANGED <<attempt, waits>>
    /\ UNCHANGED <<env, rows, task_types, taskId, taskDetails, types, tx,
                   fieldData, history, budget, response, call, field_changes, checkedOut, manual, listing>>

\* db.checkTaskExists (sync.js 34-37).
CheckExists(p) ==
    /\ pc[p] = "check"
    /\ pc' = [pc EXCEPT ![p] = IF rows[taskId[p]] = NoRow THEN "insert" ELSE "verify"]
    /\ UNCHANGED <<env, rows, task_types, locals, history, budget, responses, response, call, field_changes, checkedOut, manual, listing, waits>>

\* A table that takes a second row for an id.
DuplicateKeyAllowed(table, id) == FALSE

\* clickup_task has id as its primary key (part_002 lines 174-175): an
\* INSERT for an id that has a row is rejected.
DuplicateKey(table, id) == table[id] # NoRow

\* The placeholder INSERT (sync.js 40-87).  The primary key rejects a
\* second row for the id; the error is rethrown into the outer catch.
Insert(p) ==
    /\ pc[p] = "insert"
    /\ IF ~DuplicateKey(rows, taskId[p])
       THEN /\ rows' = [rows EXCEPT ![taskId[p]] =
                           PlaceholderRow(taskId[p], taskDetails[p], clock)]
            /\ pc' = [pc EXCEPT ![p] = "verify"]
            /\ UNCHANGED result
       ELSE /\ Caught(p, "duplicate key value violates unique constraint")
            /\ UNCHANGED rows
    /\ UNCHANGED <<env, task_types, taskId, attempt, taskDetails, types, tx,
                   fieldData, history, budget, responses, response, call, field_changes, checkedOut, manual, listing, waits>>

\* A check that passes whatever the re-read returned.
FoundAlways(verifyTask) == TRUE

\* The check on the re-read row, `if (!verifyTask)` (sync.js 92): getTaskById
\* returns the row, or nothing when there is none.
Found(verifyTask) == verifyTask # NoRow

\* db.getTaskById and the check on it (sync.js 91-100); then syncTaskTypes
\* connects and BEGINs (part_001 lines 7-9).
Verify(p) ==
    /\ pc[p] = "verify"
    /\ IF ~Found(rows[taskId[p]])
       THEN /\ pc' = [pc EXCEPT ![p] = "done"]
            /\ result' = [result EXCEPT ![p] = Failure("Failed to create/find task")]
            /\ UNCHANGED <<tx, checkedOut>>
       ELSE /\ pc' = [pc EXCEPT ![p] = "types_fetch"]
            /\ tx' = [tx EXCEPT ![p] = OpenTx]
            /\ checkedOut' = checkedOut + 1
            /\ UNCHANGED result
    /\ UNCHANGED <<env, rows, task_types, taskId, attempt, taskDetails, types,
                   fieldData, history, budget, responses, response, call, field_changes, manual, listing, waits>>

(***************************************************************************)
(* TaskTypeSync.syncTaskTypes (part_001 lines 6-53), called at sync.js     *)
(* line 103 inside the outer try: what it throws ends the sync.            *)
(***************************************************************************)
\* The ids of task_types rows that other open transactions have written and
\* therefore hold locked until they commit or roll back.
LockedByOthers(p) ==
    UNION {(DOMAIN tx[q].upserts) \cup tx[q].deletes : q \in Procs \ {p}}

\* A schema without the foreign key: no type id counts as referred to.
ReferencedTypesUnchecked == {}

\* The type ids that task rows refer to (the foreign key of task_type_id).
ReferencedTypes ==
    {rows[t].task_type_id : t \in {u \in Tasks : rows[u] # NoRow}} \ {NULL}

\* The catch of syncTaskTypes: ROLLBACK, release, rethrow.
TypesAbort(p, message) ==
    /\ task_types' = Rollback(task_types, tx[p])
    /\ tx' = [tx EXCEPT ![p] = NoTx]
    /\ checkedOut' = checkedOut - Released("rollback")
    /\ Caught(p, message)

\* clickup.getCustomTaskTypes answers (part_001 line 11).
TypesFetch(p) ==
    /\ pc[p] = "types_fetch"
    /\ types' = [types EXCEPT ![p] = catalog]
    /\ pc' = [pc EXCEPT ![p] = "types_upsert"]
    /\ UNCHANGED <<env, rows, task_types, taskId, attempt, taskDetails, tx,
                   fieldData, result, history, budget, responses, response, call, field_changes, checkedOut, manual, listing, waits>>

\* clickup.getCustomTaskTypes fails: it has no retry (clickup.js 220-228).
TypesFetchFail(p) ==
    /\ pc[p] = "types_fetch"
    /\ \E status \in ErrorStatuses : TypesAbort(p, HttpMessage(status))
    /\ UNCHANGED <<env, rows, taskId, attempt, taskDetails, types, fieldData,
                   history, budget, responses, response, call, field_changes, manual, listing, waits>>

\* The upsert loop (part_001 lines 14-34).  It waits while another open
\* transaction holds one of its rows.
TypesUpsert(p) ==
    /\ pc[p] = "types_upsert"
    /\ (DOMAIN types[p]) \cap LockedByOthers(p) = {}
    /\ tx' = [tx EXCEPT ![p].upserts = UpsertRows(types[p])]
    /\ pc' = [pc EXCEPT ![p] = "types_delete"]
    /\ UNCHANGED <<env, rows, task_types, taskId, attempt, taskDetails, types,
                   fieldData, result, history, budget, responses, response, call, field_changes, checkedOut, manual, listing, waits>>

\* The prune DELETE (part_001 lines 36-42).  Deleting a type that a task row
\* refers to violates the foreign key of the migration (part_002 lines 25-28).
TypesDelete(p) ==
    /\ pc[p] = "types_delete"
    /\ LET del == PruneSet(task_types, types[p])
       IN  /\ del \cap LockedByOthers(p) = {}
           /\ IF del \cap ReferencedTypes # {}
              THEN /\ TypesAbort(p, "violates foreign key constraint")
                   /\ UNCHANGED <<rows, fieldData>>
              ELSE /\ tx' = [tx EXCEPT ![p].deletes = del]
                   /\ pc' = [pc EXCEPT ![p] = "types_commit"]
                   /\ UNCHANGED <<rows, task_types, fieldData, result, checkedOut>>
    /\ UNCHANGED <<env, taskId, attempt, taskDetails, types, history, budget, responses, response, call, field_changes, manual, listing, waits>>

\* A statement of the transaction, or its COMMIT, fails in storage.
TypesStorageFail(p) ==
    /\ pc[p] \in {"types_upsert", "types_delete", "types_commit"}
    /\ TypesAbort(p, "storage error")
    /\ UNCHANGED <<env, rows, taskId, attempt, taskDetails, types, fieldData,
                   history, budget, responses, response, call, field_changes, manual, listing, waits>>

\* Where the sync goes once syncTaskTypes has returned (sync.js 105-134):
\* to the type link if the detail has a custom type id, else it builds
\* fieldData and calls the update.
AfterTypes(p) ==
    IF taskDetails[p].custom_type.id # NULL
    THEN /\ pc' = [pc EXCEPT ![p] = "link"]
         /\ UNCHANGED fieldData
    ELSE /\ pc' = [pc EXCEPT ![p] = "update"]
         /\ fieldData' = [fieldData EXCEPT ![p] = BuildFieldData(taskDetails[p], clock)]

\* COMMIT (part_001 line 44).
TypesCommit(p) ==
    /\ pc[p] = "types_commit"
    /\ task_types' = Commit(task_types, tx[p])
    /\ tx' = [tx EXCEPT ![p] = NoTx]
    /\ checkedOut' = checkedOut - Released("commit")
    /\ AfterTypes(p)
    /\ UNCHANGED <<env, rows, taskId, attempt, taskDetails, types, result, history, budget, responses, response, call, field_changes, manual, listing, waits>>

\* TaskTypeSync.updateTaskTypeRelationships (part_001 lines 55-78), one
\* UPDATE in its own transaction.  It waits for a transaction that is
\* deleting the type; a type id with no task_types row violates the
\* foreign key and the error ends the sync.
Link(p) ==
    /\ pc[p] = "link"
    /\ LET t == taskId[p]
           typeId == taskDetails[p].custom_type.id
       IN  /\ typeId \notin UNION {tx[q].deletes : q \in Procs}
           /\ IF rows[t] # NoRow /\ typeId \notin DOMAIN task_types
              THEN /\ Caught(p, "violates foreign key constraint")
                   /\ checkedOut' = AfterOperation(checkedOut, "rollback")
                   /\ UNCHANGED <<rows, fieldData>>
              ELSE /\ checkedOut' = AfterOperation(checkedOut, "commit")
                   /\ rows' = [rows EXCEPT ![t] =
                                  IF rows[t] = NoRow THEN NoRow
                                  ELSE LinkedRow(rows[t], typeId, task_types)]
                   /\ pc' = [pc EXCEPT ![p] = "update"]
                   /\ fieldData' = [fieldData EXCEPT ![p] =
                                       BuildFieldData(taskDetails[p], clock)]
                   /\ UNCHANGED result
    /\ UNCHANGED <<env, task_types, taskId, attempt, taskDetails, types, tx, history, budget, responses, response, call, field_changes, manual, listing, waits>>

\* db.updateTaskCustomFields (part_002 lines 271-338) and the return of
\* sync.js lines 199-202.  With no row to update it rolls back and returns
\* null, which the sync hands on as the task of a success result.
\* What updateTaskCustomFields would leave in field_changes if it wrote each
\* of its documents through updateTaskField.
LedgerThroughUpdateTaskField(ledger, t, was, now) ==
    IF was.custom_fields # now.custom_fields
    THEN Append(ledger, [task_id |-> t, field_name |-> "custom_fields",
                         old_value |-> was.custom_fields,
                         new_value |-> now.custom_fields])
    ELSE ledger

\* updateTaskCustomFields assigns its documents in one UPDATE of clickup_task
\* (part_002 lines 283-303); it does not call updateTaskField and has no
\* INSERT INTO field_changes, so the ledger after it is the ledger before it.
LedgerAfterUpdate(ledger, t, was, now) == ledger

\* The operations part_002 exports (lines 775-794).
Exported ==
    {"pool", "query", "initializeTables", "cleanOldData", "getRecentChanges",
     "findTasksByCore", "getCoreFieldSummary", "getTableStructure", "getTaskById",
     "getTaskTypes", "getTaskTypeById", "updateTaskCustomFields",
     "updateTaskRelationships", "getFieldChangeHistory", "getFieldChangeStats",
     "checkTaskExists", "checkConnection"}

Update(p) ==
    /\ pc[p] = "update"
    /\ LET t == taskId[p]
       IN  IF rows[t] = NoRow
           THEN /\ result' = [result EXCEPT ![p] = Success("null")]
                /\ checkedOut' = AfterOperation(checkedOut, "return")
                /\ UNCHANGED <<rows, history, field_changes>>
           ELSE /\ rows' = [rows EXCEPT ![t] = UpdatedRow(rows[t], fieldData[p], clock)]
                /\ field_changes' = LedgerAfterUpdate(field_changes, t, rows[t],
                                                      UpdatedRow(rows[t], fieldData[p], clock))
                /\ result' = [result EXCEPT ![p] = Success("row")]
                /\ checkedOut' = AfterOperation(checkedOut, "commit")
                /\ lastSync' = [lastSync EXCEPT ![t] =
                                   [by |-> p, detail |-> taskDetails[p],
                                    again |-> /\ lastSync[t] # NoSync
                                              /\ lastSync[t].detail = taskDetails[p]]]
                /\ overtaken' = [overtaken EXCEPT ![t] = {}]
    /\ pc' = [pc EXCEPT ![p] = "done"]
    /\ UNCHANGED <<env, task_types, taskId, attempt, taskDetails, types, tx, fieldData,
                   budget, responses, response, call, manual, listing, waits>>

\* A statement of updateTaskCustomFields fails in storage: its catch rolls
\* back and rethrows (part_002 lines 325-337) and the error lands in the
\* outer catch of the sync.
UpdateFail(p) ==
    /\ pc[p] = "update"
    /\ Caught(p, "storage error")
    /\ checkedOut' = AfterOperation(checkedOut, "rollback")
    /\ UNCHANGED <<env, rows, task_types, taskId, attempt, taskDetails, types, tx,
                   fieldData, history, budget, responses, response, call,
                   field_changes, manual, listing, waits>>

\* The frame of an ended invocation goes.
FrameGone(p) ==
    /\ pc' = [pc EXCEPT ![p] = "idle"]
    /\ taskId' = [taskId EXCEPT ![p] = NULL]
    /\ attempt' = [attempt EXCEPT ![p] = 0]
    /\ taskDetails' = [taskDetails EXCEPT ![p] = NoDetail]
    /\ types' = [types EXCEPT ![p] = <<>>]
    /\ fieldData' = [fieldData EXCEPT ![p] = NoFieldData]
    /\ result' = [result EXCEPT ![p] = NoResult]
    /\ overtaken' = [t \in Tasks |-> overtaken[t] \ {p}]
    /\ responses' = [responses EXCEPT ![p] = <<>>]
    /\ waits' = [waits EXCEPT ![p] = <<>>]

\* The route has the sync's result and answers the delivery; the
\* invocation's frame is gone.
Return(p) ==
    /\ pc[p] = "done"
    /\ response' = [response EXCEPT ![p] = WebhookResponse(result[p])]
    /\ FrameGone(p)
    /\ UNCHANGED <<env, rows, task_types, tx, lastSync, budget, call, field_changes, checkedOut, manual, listing>>

(***************************************************************************)
(* POST /api/task/:taskId/sync (index.js lines 63-103): the field sync and *)
(* syncTaskRelationships (sync.js 324-359) run side by side under          *)
(* Promise.all, then the row is read and returned.                         *)
(***************************************************************************)
\* The answer of the route's catch (index.js 83-102) for a failed remote call.
ManualError(status, t) ==
    IF status = 404
    THEN [status |-> 404, success |-> FALSE, error |-> "Task not found in ClickUp",
          taskId |-> t, task |-> NoRow]
    ELSE [status |-> 500, success |-> FALSE, error |-> HttpMessage(status),
          taskId |-> t, task |-> NoRow]

\* The answer of index.js lines 75-81 with the row getTaskById returned.
ManualSuccess(row) ==
    [status |-> 200, success |-> TRUE, error |-> NULL, taskId |-> NULL, task |-> row]

\* The request arrives; both syncs are started (index.js 69-72).
ManualStart(p, t) ==
    /\ pc[p] = "idle"
    /\ manual.rel = "idle"
    /\ runs < MaxRuns
    /\ runs' = runs + 1
    /\ pc' = [pc EXCEPT ![p] = "fetch"]
    /\ taskId' = [taskId EXCEPT ![p] = t]
    /\ attempt' = [attempt EXCEPT ![p] = 0]
    /\ manual' = [rel |-> "fetch", detail |-> NoDetail, answer |-> NoResponse,
                  had |-> {u \in Tasks : rows[u] # NoRow}]
    /\ UNCHANGED <<env, rows, task_types, taskDetails, types, tx, fieldData,
                   result, history, events, responses, response, call,
                   field_changes, checkedOut, listing, waits>>

\* syncTaskRelationships has its detail (sync.js 326): the retry loop of
\* getTaskDetails ended with a response.
RelFetchOk(p) ==
    /\ manual.rel = "fetch"
    /\ \E status \in Answers(taskId[p]) : ~Rejects(status)
    /\ manual' = [manual EXCEPT !.rel = "update",
                                !.detail = ResponseDetail(upstream[taskId[p]])]
    /\ UNCHANGED <<env, rows, task_types, pc, locals, history, budget, responses,
                   response, call, field_changes, checkedOut, listing, waits>>

\* The retry loop of getTaskDetails ended with an error: syncTaskRelationships
\* rethrows it (sync.js 355-358), Promise.all rejects and the route's catch
\* answers at once.
RelFetchError(p) ==
    /\ manual.rel = "fetch"
    /\ \E status \in Answers(taskId[p]) :
          /\ Rejects(status)
          /\ manual' = [manual EXCEPT !.rel = "failed",
                                      !.answer = ManualError(status, taskId[p])]
    /\ UNCHANGED <<env, rows, task_types, pc, locals, history, budget, responses,
                   response, call, field_changes, checkedOut, listing, waits>>

\* syncTaskRelationships calls db.updateTaskRelationships with the parent and
\* the type name of its detail (sync.js 332-354); a null result is logged.
RelUpdate(p) ==
    /\ manual.rel = "update"
    /\ updateTaskRelationships(taskId[p],
                               [parent_id |-> manual.detail.parent,
                                custom_type |-> manual.detail.custom_type.name])
    /\ manual' = [manual EXCEPT !.rel = "done"]
    /\ UNCHANGED <<env, task_types, pc, locals, history, budget, responses,
                   response, field_changes, listing, waits>>

\* db.updateTaskRelationships met a storage error.  A null result (the
\* foreign-key violation) is logged like any other null (sync.js 344-353); a
\* rethrown error leaves syncTaskRelationships through its catch (sync.js
\* 355-358), Promise.all rejects and the route answers 500 with the error's
\* message (index.js 96-101).
RelUpdateError(p) ==
    /\ manual.rel = "update"
    /\ \E code \in StorageErrorCodes :
          /\ updateTaskRelationshipsCatch(taskId[p],
                                          [parent_id |-> manual.detail.parent,
                                           custom_type |-> manual.detail.custom_type.name],
                                          code)
          /\ manual' = IF Reported(code) = "null"
                       THEN [manual EXCEPT !.rel = "done"]
                       ELSE [manual EXCEPT !.rel = "failed",
                                           !.answer = [status |-> 500, success |-> FALSE,
                                                       error |-> "storage error",
                                                       taskId |-> taskId[p],
                                                       task |-> NoRow]]
    /\ UNCHANGED <<env, task_types, pc, locals, history, budget, responses,
                   response, field_changes, listing, waits>>

\* Both promises have resolved: getTaskById reads the row and the route
\* answers with it (index.js 74-81).
ManualRespond(p) ==
    /\ pc[p] = "done"
    /\ manual.rel = "done"
    /\ manual' = [rel |-> "idle", detail |-> NoDetail,
                  answer |-> ManualSuccess(rows[taskId[p]]), had |-> {}]
    /\ FrameGone(p)
    /\ UNCHANGED <<env, rows, task_types, tx, lastSync, budget, response, call,
                   field_changes, checkedOut, listing>>

\* The route has answered with the error; the field sync, left running,
\* ends.
ManualSettle(p) ==
    /\ pc[p] = "done"
    /\ manual.rel = "failed"
    /\ manual' = [manual EXCEPT !.rel = "idle", !.had = {}]
    /\ FrameGone(p)
    /\ UNCHANGED <<env, rows, task_types, tx, lastSync, budget, response, call,
                   field_changes, checkedOut, listing>>

(***************************************************************************)
(* The listing calls of the remote client (clickup.js): getListTasks asks  *)
(* for page 0 of a list under retryRequest, getSpaceTasks asks for the     *)
(* pages of a space one after another without it.                          *)
(***************************************************************************)
\* ClickUp's page size, as getSpaceTasks takes it (clickup.js line 133).
PageSize == 100

\* The lists and spaces asked for.
ListIds == {"l1", "l2"}

\* The statuses a listing request is answered with.
ListAnswers == ErrorStatuses \cup {404, 200}

\* The numbers of tasks a page of a space may hold: none, some, a full page.
PageLengths == {0, 2, PageSize}

\* The numbers of tasks the answer for a list may hold.
ListLengths == {0, 2}

\* The tasks of page k when it holds n of them.
Page(k, n) == [i \in 1..n |-> <<k, i>>]

\* What the caller of a listing call has in hand.
Pending == [pending |-> TRUE]
Returned(tasks) == [tasks |-> tasks]
Thrown(status) == [error |-> HttpMessage(status)]

\* A catch that answers every retryable status with an empty list.
HandledAsEmptyRetryable(status) == status \in {502, 429}

\* The catch of getListTasks (clickup.js lines 206-210): an error with
\* status 502 becomes an empty list.
HandledAsEmpty(status) == status = 502

\* getListTasks is called (clickup.js line 191).
getListTasks(listId) ==
    /\ listing.out # Pending
    /\ runs < MaxRuns
    /\ runs' = runs + 1
    /\ listing' = [op |-> "getListTasks", id |-> listId, attempt |-> 0,
                   pages |-> <<>>, responses |-> <<>>, out |-> Pending]
    /\ UNCHANGED <<env, rows, task_types, pc, locals, history, events, responses,
                   response, call, field_changes, checkedOut, manual, waits>>

\* One attempt of retryRequest inside getListTasks (clickup.js 29-43,
\* 193-205): the response's tasks are returned; a rejected answer is retried
\* while ShouldRetry allows; the error retryRequest throws lands in the catch
\* (206-211), which returns [] or throws it on.
ListAttempt ==
    /\ listing.op = "getListTasks"
    /\ listing.out = Pending
    /\ \E status \in ListAnswers :
          LET asked == [listing EXCEPT !.pages = Append(@, 0),
                                       !.responses = Append(@, status)]
          IN  IF ~Rejects(status)
              THEN \E n \in ListLengths :
                      listing' = [asked EXCEPT !.out = Returned(Page(0, n))]
              ELSE IF ShouldRetry(status, listing.attempt)
              THEN listing' = [asked EXCEPT !.attempt = @ + 1]
              ELSE IF HandledAsEmpty(status)
              THEN listing' = [asked EXCEPT !.out = Returned(<<>>)]
              ELSE listing' = [asked EXCEPT !.out = Thrown(status)]
    /\ UNCHANGED <<env, rows, task_types, pc, locals, history, budget, responses,
                   response, call, field_changes, checkedOut, manual, waits>>

\* A loop that goes on while the last page held any task.
hasMoreNonEmpty(tasks) == Len(tasks) > 0

\* The loop condition of getSpaceTasks after a page (clickup.js line 133).
hasMore(tasks) == Len(tasks) = PageSize

\* getSpaceTasks is called (clickup.js lines 115-119): no task yet, page 0.
getSpaceTasks(spaceId) ==
    /\ listing.out # Pending
    /\ runs < MaxRuns
    /\ runs' = runs + 1
    /\ listing' = [op |-> "getSpaceTasks", id |-> spaceId, page |-> 0,
                   allTasks |-> <<>>, pages |-> <<>>, lengths |-> <<>>,
                   responses |-> <<>>, out |-> Pending]
    /\ UNCHANGED <<env, rows, task_types, pc, locals, history, events, responses,
                   response, call, field_changes, checkedOut, manual, waits>>

\* One round of the loop of getSpaceTasks (clickup.js 122-141): the page is
\* asked for once, with no retry; its tasks are pushed, hasMore is set and
\* the page number goes up; when hasMore is false allTasks is returned.  A
\* rejected answer leaves through the catch (142-145), which throws it on:
\* the caller gets the error, allTasks is lost.
SpacePage ==
    /\ listing.op = "getSpaceTasks"
    /\ listing.out = Pending
    /\ listing.page < MaxPages
    /\ \E status \in ListAnswers :
          LET asked == [listing EXCEPT !.pages = Append(@, listing.page),
                                       !.responses = Append(@, status)]
          IN  IF Rejects(status)
              THEN listing' = [asked EXCEPT !.out = Thrown(status)]
              ELSE \E n \in PageLengths :
                      LET tasks == Page(listing.page, n)
                          allTasks == listing.allTasks \o tasks
                      IN  listing' = [asked EXCEPT
                                         !.allTasks = allTasks,
                                         !.lengths = Append(@, Len(tasks)),
                                         !.page = @ + 1,
                                         !.out = IF hasMore(tasks) THEN Pending
                                                 ELSE Returned(allTasks)]
    /\ UNCHANGED <<env, rows, task_types, pc, locals, history, budget, responses,
                   response, call, field_changes, checkedOut, manual, waits>>

(***************************************************************************)
(* The system.                                                             *)
(***************************************************************************)
\* The steps of the running invocations of syncTaskCustomFields when the
\* transaction of the final update goes through.
SyncStepsUpdating ==
    \/ \E p \in Procs : FetchOk(p)
    \/ \E p \in Procs : FetchError(p)
    \/ \E p \in Procs : CheckExists(p)
    \/ \E p \in Procs : Insert(p)
    \/ \E p \in Procs : Verify(p)
    \/ \E p \in Procs : TypesFetch(p)
    \/ \E p \in Procs : TypesFetchFail(p)
    \/ \E p \in Procs : TypesUpsert(p)
    \/ \E p \in Procs : TypesDelete(p)
    \/ \E p \in Procs : TypesStorageFail(p)
    \/ \E p \in Procs : TypesCommit(p)
    \/ \E p \in Procs : Link(p)
    \/ \E p \in Procs : Update(p)

\* The steps of the running invocations of syncTaskCustomFields.
SyncSteps ==
    \/ SyncStepsUpdating
    \/ \E p \in Procs : UpdateFail(p)

\* The step invocation p takes when the call it awaits answers.
SyncStep(p) ==
    \/ FetchOk(p)
    \/ FetchError(p)
    \/ CheckExists(p)
    \/ Insert(p)
    \/ Verify(p)
    \/ TypesFetch(p)
    \/ TypesFetchFail(p)
    \/ TypesUpsert(p)
    \/ TypesDelete(p)
    \/ TypesStorageFail(p)
    \/ TypesCommit(p)
    \/ Link(p)
    \/ Update(p)
    \/ UpdateFail(p)

\* The steps of the invocations the webhook route made.
Steps ==
    \/ SyncSteps
    \/ \E p \in Procs : Return(p)

\* One caller at a time (webhook deliveries one after another) syncing task
\* t1 while the clock runs, t1 is edited in the workspace and the importer
\* passes over the rows of both tasks; t2 is the bystander row.  The type
\* catalog stays as it starts.
Next ==
    \/ Tick
    \/ UpstreamChange("t1")
    \/ \E t \in Tasks : ImporterWrite(t)
    \/ Start("p1", "t1")
    \/ Steps

\* The catalog with every type.
AllTypes == [i \in TypeIds |-> TypeName(i)]

InitAllTypes == Init /\ catalog = AllTypes

\* Task t1 starts with a custom type in the workspace, so that its sync
\* links it.
InitTyped == InitAllTypes /\ upstream["t1"] = DetailAlpha

Spec == InitAllTypes /\ [][Next]_vars

\* Two callers at once for the same task (a webhook delivery racing a manual
\* sync) while the task is edited in the workspace.  The transaction of the
\* final update goes through for both (Next has the update that fails).
NextRace ==
    \/ UpstreamChange("t1")
    \/ \E p \in Procs : Start(p, "t1")
    \/ SyncStepsUpdating
    \/ \E p \in Procs : Return(p)

SpecRace == InitTyped /\ [][NextRace]_vars

\* Two callers at once, where every remote and storage call an invocation
\* awaits is eventually answered: the event loop then runs the
\* invocation's continuation, so a step of an invocation that stays
\* possible is eventually taken.
NextLive ==
    \/ \E p \in Procs : Start(p, "t1")
    \/ Steps

SpecLive == InitAllTypes /\ [][NextLive]_vars /\ \A p \in Procs : WF_vars(SyncStep(p))

\* One caller at a time while the workspace's type catalog is edited.
NextCatalog ==
    \/ CatalogChange
    \/ Start("p1", "t1")
    \/ Steps

SpecCatalog == Init /\ [][NextCatalog]_vars

\* One caller at a time while the retention clean-up runs and the clock
\* advances.
NextClean ==
    \/ Tick
    \/ \E daysToKeep \in 0..MaxClock : cleanOldData(daysToKeep)
    \/ cleanOldDataCatch
    \/ \E t \in Tasks : Start("p1", t)
    \/ Steps

SpecClean == InitAllTypes /\ [][NextClean]_vars

\* The storage operations called on their own while the importer fills the
\* table.
NextDb ==
    \/ \E t \in Tasks : ImporterWrite(t)
    \/ \E t \in Tasks, relationships \in Relationships :
          RelationshipsCall(t, relationships)
    \/ \E t \in Tasks, save \in Saves :
          updateTaskField(t, save.fieldName, save.newValue)

SpecDb == InitAllTypes /\ [][NextDb]_vars

\* Manual syncs of t1, one request at a time, while the importer fills the
\* table.
NextManual ==
    \/ \E t \in Tasks : ImporterWrite(t)
    \/ ManualStart("p1", "t1")
    \/ SyncSteps
    \/ RelFetchOk("p1")
    \/ RelFetchError("p1")
    \/ RelUpdate("p1")
    \/ RelUpdateError("p1")
    \/ ManualRespond("p1")
    \/ ManualSettle("p1")

SpecManual == InitAllTypes /\ [][NextManual]_vars

\* Everything that writes task_type_id or task_types: one caller's syncs of
\* t1 (catalog refresh and type link), the relationship updater and the
\* retention sweep, while the workspace's type catalog is edited and the
\* clock runs.
NextIntegrity ==
    \/ CatalogChange
    \/ Tick
    \/ Start("p1", "t1")
    \/ Steps
    \/ \E custom_type \in {NULL, "Bug"} :
          RelationshipsCall("t1", [parent_id |-> NULL, custom_type |-> custom_type])
    \/ cleanOldData(0)
    \/ cleanOldDataCatch

SpecIntegrity == InitTyped /\ [][NextIntegrity]_vars

\* The listing calls of the remote client, one at a time.
NextClient ==
    \/ \E listId \in ListIds : getListTasks(listId)
    \/ ListAttempt
    \/ \E spaceId \in ListIds : getSpaceTasks(spaceId)
    \/ SpacePage

SpecClient == Init /\ [][NextClient]_vars

\* Every operation that takes a connection from the pool: one caller's sync
\* of t1 while the clock runs and the clean-up, the relationship update,
\* the recent-changes read and a raw query are called.
NextPool ==
    \/ Tick
    \/ cleanOldData(0)
    \/ cleanOldDataCatch
    \/ Start("p1", "t1")
    \/ Steps
    \/ \E t \in Tasks : RelationshipsCall(t, [parent_id |-> "t9", custom_type |-> NULL])
    \/ getRecentChanges(0)
    \/ query("CREATE TABLE IF NOT EXISTS task_types")

SpecPool == InitAllTypes /\ [][NextPool]_vars

(***************************************************************************)
(* Properties.                                                             *)
(***************************************************************************)
\* The step in which invocation p's UPDATE finds its row and commits.
UpdateCommits(p) ==
    /\ pc[p] = "update"
    /\ pc'[p] = "done"
    /\ rows[taskId[p]] # NoRow
    /\ result'[p] # NoResult
    /\ result'[p].success

\* The three structured maps of a row.
Maps(row) == <<row.custom_fields, row.relationships, row.field_values>>

\* The entries of a detail's custom-field sequence.
FieldsOf(d) == {d.custom_fields[i] : i \in DOMAIN d.custom_fields}

\* C1: idempotence of the merge.  When a sync commits its whole-map update
\* from the same upstream detail as the update committed before it on that
\* row, the stored custom_fields, relationships and field_values maps are
\* after the commit what they were before it.
C1_MergeIdempotent ==
    [][\A p \in Procs :
          (/\ UpdateCommits(p)
           /\ lastSync[taskId[p]] # NoSync
           /\ lastSync[taskId[p]].detail = taskDetails[p])
          => Maps(rows'[taskId[p]]) = Maps(rows[taskId[p]])]_vars

\* A second update from an unchanged detail has been committed at a later
\* clock reading than the row's creation, on a row with definitions stored.
C1_Witness ==
    /\ lastSync["t1"] # NoSync
    /\ lastSync["t1"].again
    /\ lastSync["t1"].detail = DetailAlpha
    /\ rows["t1"]._airbyte_extracted_at = 1
    /\ rows["t1"].custom_fields # EmptyMap

\* C2: no step of a sync invocation changes the _airbyte_raw_id or the
\* _airbyte_extracted_at of a row that exists before the step.
C2_ProvenanceUntouched ==
    [][pc' # pc =>
          \A t \in Tasks :
             (rows[t] # NoRow /\ rows'[t] # NoRow)
             => /\ rows'[t]._airbyte_raw_id = rows[t]._airbyte_raw_id
                /\ rows'[t]._airbyte_extracted_at = rows[t]._airbyte_extracted_at]_vars

\* C3: coalesce update.  The committed update leaves each of name, status
\* and description at the upstream value when that value is non-null and at
\* the stored value when it is null; and no step of a sync invocation turns
\* a stored non-null name, status or description into null.
C3_Coalesce ==
    [][/\ \A p \in Procs :
             UpdateCommits(p) =>
                LET old == rows[taskId[p]]
                    new == rows'[taskId[p]]
                    d == taskDetails[p]
                    upstreamStatus == FieldDataStatus(d.status)
                IN  /\ new.name = IF d.name # NULL THEN d.name ELSE old.name
                    /\ new.description = IF d.description # NULL THEN d.description
                                         ELSE old.description
                    /\ new.status = IF upstreamStatus # NULL THEN upstreamStatus
                                    ELSE old.status
       /\ pc' # pc =>
             \A t \in Tasks :
                (rows[t] # NoRow /\ rows'[t] # NoRow)
                => /\ rows[t].name # NULL => rows'[t].name # NULL
                   /\ rows[t].status # NULL => rows'[t].status # NULL
                   /\ rows[t].description # NULL => rows'[t].description # NULL]_vars

\* A sync whose detail has a null name and a null status has updated a row
\* that keeps its earlier name and status and has the detail's description.
C3_Witness ==
    /\ lastSync["t1"] # NoSync
    /\ lastSync["t1"].detail = DetailGamma
    /\ rows["t1"].name = "Alpha"
    /\ rows["t1"].status # NULL
    /\ rows["t1"].description = "gamma desc"

\* C4: when the importer has written the row after a sync fetched its detail
\* and before that sync's update commits, the update leaves name, status and
\* description as the importer wrote them.
C4_ImporterValueSurvives ==
    [][\A p \in Procs :
          (UpdateCommits(p) /\ p \in overtaken[taskId[p]])
          => /\ rows'[taskId[p]].name = rows[taskId[p]].name
             /\ rows'[taskId[p]].status = rows[taskId[p]].status
             /\ rows'[taskId[p]].description = rows[taskId[p]].description]_vars

\* C5: once two concurrent syncs of a task have both finished with their
\* update committed, the three stored maps are those computed by the one
\* that committed last.
C5_LastCommitWins ==
    (\A p \in Procs : /\ pc[p] = "done"
                      /\ result[p].success
                      /\ result[p].task = "row"
                      /\ taskId[p] = "t1")
    => LET last == lastSync["t1"].by
       IN  Maps(rows["t1"]) = <<fieldData[last].customFields,
                                fieldData[last].relationships,
                                fieldData[last].fieldValues>>

\* Both syncs have finished with committed updates computed from different
\* details.
C5_Witness ==
    /\ \A p \in Procs : /\ pc[p] = "done"
                        /\ result[p].success
                        /\ result[p].task = "row"
                        /\ taskId[p] = "t1"
    /\ fieldData["p1"].customFields # fieldData["p2"].customFields
    /\ fieldData["p1"].relationships # fieldData["p2"].relationships

C7_ClientValueStored ==
    \A t \in Tasks :
       (/\ rows[t] # NoRow
        /\ lastSync[t] # NoSync
        /\ \E f \in FieldsOf(lastSync[t].detail) :
              f.name = ClientEmoji /\ f.value # JsNull)
       => /\ CleanName(ClientEmoji) = Client
          /\ ClientColumn \in DOMAIN rows[t].field_values
          /\ \E f \in FieldsOf(lastSync[t].detail) :
                /\ f.name = ClientEmoji
                /\ rows[t].field_values[ClientColumn].value = Transform("String", f.value)

\* C8: after a committed update, every named field of the detail whose
\* clean name is not in the mapping table and whose value is non-null has
\* an entry in the stored custom_fields map and none in the stored
\* field_values map.
C8_UnmappedNotValued ==
    \A t \in Tasks :
       (rows[t] # NoRow /\ lastSync[t] # NoSync) =>
          \A f \in FieldsOf(lastSync[t].detail) :
             (f.name # <<>> /\ f.value # JsNull) =>
                LET cleanName == CleanName(f.name)
                IN  (\A e \in fieldMap : e.key # cleanName)
                    => /\ cleanName \in DOMAIN rows[t].custom_fields
                       /\ rows[t].custom_fields[cleanName].id = f.id
                       /\ cleanName \notin DOMAIN rows[t].field_values
                       /\ \A key \in DOMAIN rows[t].field_values :
                             rows[t].field_values[key].field_id # f.id

\* An update from the detail with the field "Random Notes" is stored.
C8_Witness ==
    /\ rows["t1"] # NoRow
    /\ lastSync["t1"] # NoSync
    /\ lastSync["t1"].detail = DetailAlpha
    /\ RandomNotes \in DOMAIN rows["t1"].custom_fields

\* The states of an invocation inside syncTaskTypes.
InTypes == {"types_fetch", "types_upsert", "types_delete", "types_commit"}

\* C9: the catalog refresh is all-or-nothing.  A refresh that ends in an
\* error (remote fetch, upsert, prune or commit) leaves task_types as it
\* was, and task_types changes in no step other than a refresh's COMMIT.
C9_RefreshAtomic ==
    [][/\ \A p \in Procs :
             (pc[p] \in InTypes /\ pc'[p] = "done") => task_types' = task_types
       /\ task_types' # task_types =>
             \E p \in Procs : pc[p] = "types_commit" /\ pc'[p] \in {"link", "update"}]_vars

\* A refresh that had fetched a catalog other than what is stored, with
\* stored types to lose, has failed in storage.
C9_Witness ==
    \E p \in Procs :
       /\ pc[p] = "done"
       /\ result[p].error = "storage error"
       /\ DOMAIN types[p] # DOMAIN task_types
       /\ DOMAIN task_types # {}

\* C10: when a catalog refresh commits, the ids stored in task_types are the
\* ids of the catalog it fetched, whatever that catalog and whatever the
\* table held.
C10_TableEqualsCatalog ==
    [][\A p \in Procs :
          (pc[p] = "types_commit" /\ pc'[p] \in {"link", "update"})
          => DOMAIN task_types' = DOMAIN types[p]]_vars

\* C11: the type-catalog refresh is best-effort inside a task sync.  No step
\* taken inside the refresh (remote fetch, upsert, prune, commit, or the
\* failure of any of them) ends the invocation: the sync goes on to the type
\* link or to the whole-map update, and a sync never returns a failure that
\* the refresh raised.
C11_RefreshFailureNotFatal ==
    [][\A p \in Procs :
          (pc[p] \in InTypes /\ pc'[p] # pc[p])
          => /\ pc'[p] \in InTypes \cup {"link", "update"}
             /\ result'[p] = NoResult]_vars

\* C12: when the update of a sync finds no row for the task (the row
\* vanished after the existence re-read), nothing is written and the sync
\* returns a failure result.
C12_VanishedRowFails ==
    [][\A p \in Procs :
          (pc[p] = "update" /\ pc'[p] = "done" /\ rows[taskId[p]] = NoRow)
          => /\ rows' = rows
             /\ ~result'[p].success]_vars

\* C13: a task that is not found upstream.  No step of the detail fetch
\* writes to storage (no row, no task_types row, no open transaction), and
\* while the workspace does not have the task the fetch never hands a detail
\* on: the invocation retries or ends, and it ends with a failure result.
C13_NotFoundTouchesNothing ==
    [][\A p \in Procs :
          (pc[p] = "fetch" /\ (pc'[p] # pc[p] \/ attempt'[p] # attempt[p]))
          => /\ rows' = rows
             /\ task_types' = task_types
             /\ tx' = tx
             /\ upstream[taskId[p]] = NotFound
                   => /\ pc'[p] \in {"fetch", "done"}
                      /\ pc'[p] = "done" => ~result'[p].success]_vars

\* A sync has ended on a 404 answer, and its task has no row.
C13_Witness ==
    \E p \in Procs :
       /\ pc[p] = "done"
       /\ responses[p] = <<404>>
       /\ ~result[p].success
       /\ rows[taskId[p]] = NoRow

C15_FailureLeavesNoTrace ==
    \A p \in Procs :
       (runs = 1 /\ pc[p] = "done" /\ ~result[p].success)
       => /\ rows = [t \in Tasks |-> NoRow]
          /\ task_types = <<>>

\* C16: when the syncTaskCustomFields a webhook delivery invoked ends in
\* failure, the answer to the delivery says failure and carries the error
\* message and the task id; it never says success.
C16_TriggerReportsFailure ==
    [][\A p \in Procs :
         (pc[p] = "done" /\ ~result[p].success /\ pc'[p] = "idle")
         => /\ ~response'[p].success
            /\ response'[p].error = result[p].error
            /\ response'[p].taskId = taskId[p]]_vars

StructurallyEqual(a, b) ==
    /\ a.k = b.k
    /\ a.k = "str" => a.s = b.s
    /\ a.k = "obj" => JsonbWrite(a) = JsonbWrite(b)

\* C18: updateTaskField, for a task that has a row, appends exactly one
\* record holding the stored and the given value and writes the column when
\* the given value differs from the stored one; when the two are equal (as
\* structures, whatever the order of an object's keys) it appends nothing
\* and changes nothing, so saving a value a second time adds no record.
C18_LedgerRecordsTransitions ==
    [][\A t \in Tasks, save \in Saves :
         updateTaskField(t, save.fieldName, save.newValue)
         => LET stored == CurrentValue(rows[t], save.fieldName)
            IN  IF StructurallyEqual(stored, save.newValue)
                THEN /\ field_changes' = field_changes
                     /\ rows' = rows
                ELSE /\ field_changes' =
                           Append(field_changes,
                                  [task_id |-> t, field_name |-> save.fieldName,
                                   old_value |-> stringify(stored),
                                   new_value |-> stringify(save.newValue)])
                     /\ rows'[t][save.fieldName] =
                           ColumnValue(save.fieldName, save.newValue)]_vars

C20_MapsAlwaysDocuments ==
    \A t \in Tasks :
       (rows[t] # NoRow /\ (rows[t]._airbyte_raw_id = ManualTag(t) \/ lastSync[t] # NoSync))
       => \A column \in {"custom_fields", "relationships", "field_values"} :
             /\ column \in DOMAIN rows[t]
             /\ rows[t][column] # NullMap

\* A row the core has updated from a detail with fields: definitions are
\* stored, and the value map, with no data, is the empty document.
C20_Witness ==
    \E t \in Tasks :
       /\ rows[t] # NoRow
       /\ lastSync[t] # NoSync
       /\ rows[t].custom_fields # EmptyMap
       /\ rows[t].field_values = EmptyMap

\* C21: a sync for a task that has no row never creates one: every row of
\* clickup_task that comes into being is created by the importer, with the
\* importer's provenance.
C21_OnlyImporterCreatesRows ==
    [][\A t \in Tasks :
         (rows[t] = NoRow /\ rows'[t] # NoRow)
         => rows'[t]._airbyte_raw_id = "airbyte_" \o t]_vars

\* C22: the type link of a sync whose detail carries a custom type with id T
\* writes T to the row's task_type_id and, to task_type_name, the name
\* task_types holds for T at that moment; the sync then succeeds with the
\* row still linked to T.  A sync whose detail carries no custom type id
\* changes neither column in any of its steps.
C22_TypeLinkage ==
    [][\A p \in Procs :
         LET t == taskId[p]
             T == taskDetails[p].custom_type.id
         IN  (taskDetails[p] # NoDetail /\ pc'[p] # pc[p] /\ rows[t] # NoRow /\ rows'[t] # NoRow)
             => /\ (pc[p] = "link" /\ pc'[p] = "update")
                   => /\ rows'[t].task_type_id = T
                      /\ rows'[t].task_type_name = task_types[T].name
                /\ (T # NULL /\ pc'[p] = "done" /\ result'[p].success)
                   => /\ rows'[t].task_type_id = T
                      /\ rows'[t].task_type_name = task_types'[T].name
                /\ T = NULL
                   => /\ rows'[t].task_type_id = rows[t].task_type_id
                      /\ rows'[t].task_type_name = rows[t].task_type_name]_vars

\* A sync has succeeded for a task of type T and the row carries T and its
\* stored name.
C22_Witness ==
    \E p \in Procs :
       /\ pc[p] = "done"
       /\ result[p].success
       /\ taskDetails[p].custom_type.id = "ty1"
       /\ rows[taskId[p]] # NoRow
       /\ rows[taskId[p]].task_type_id = "ty1"
       /\ rows[taskId[p]].task_type_name = "Bug"

\* C23: inside one run of syncTaskCustomFields the catalog refresh, the type
\* link and the whole-map update happen in that order, each after the one
\* before it has finished, and none before the row was re-read and found:
\* the refresh starts only from the re-read with the row present, the link
\* and the update only once the refresh has committed, the update after the
\* link when the detail has a type.  A re-read that finds no row ends the
\* run in failure with nothing refreshed, linked or updated.
C23_StepOrder ==
    [][\A p \in Procs :
         LET t == taskId[p]
         IN  pc'[p] # pc[p]
             => /\ pc'[p] = "types_fetch"
                   => (pc[p] = "verify" /\ rows[t] # NoRow)
                /\ pc'[p] = "link"
                   => (pc[p] = "types_commit" /\ tx[p].open /\ ~tx'[p].open)
                /\ pc'[p] = "update"
                   => \/ pc[p] = "link"
                      \/ /\ pc[p] = "types_commit"
                         /\ ~tx'[p].open
                         /\ taskDetails[p].custom_type.id = NULL
                /\ (pc[p] = "update" \/ (pc'[p] = "done" /\ result'[p].success))
                   => (pc[p] = "update" /\ pc'[p] = "done" /\ ~tx[p].open)
                /\ (pc[p] = "verify" /\ rows[t] = NoRow)
                   => /\ pc'[p] = "done"
                      /\ result'[p] = Failure("Failed to create/find task")
                      /\ UNCHANGED <<rows, task_types, tx>>]_vars

\* The row was deleted between the existence check and the re-read: the run
\* has ended in failure and the table holds no row for the task.
C23_Witness ==
    \E p \in Procs :
       /\ pc[p] = "done"
       /\ result[p] = Failure("Failed to create/find task")
       /\ rows[taskId[p]] = NoRow
       /\ task_types = <<>>

\* The clean names of the entries of a detail's custom-field sequence that
\* have a name.
CleanNamesOf(d) == {CleanName(f.name) : f \in {g \in FieldsOf(d) : g.name # <<>>}}

\* C24: the update a sync commits replaces the stored field-definition map
\* whole: after it the keys of custom_fields are exactly the clean names of
\* the named entries of the detail the sync fetched, whatever keys the row
\* held before; entries without a name add no key and do not fail the sync.
C24_DefinitionKeysReplaced ==
    [][\A p \in Procs :
         UpdateCommits(p)
         => /\ DOMAIN rows'[taskId[p]].custom_fields = CleanNamesOf(taskDetails[p])
            /\ result'[p].success]_vars

\* A row updated last from the detail that has an entry without a name and
\* two entries that clean to the same name: it holds the one key, and none of
\* the keys of the other detail.
C24_Witness ==
    /\ rows["t1"] # NoRow
    /\ lastSync["t1"] # NoSync
    /\ lastSync["t1"].detail = DetailGamma
    /\ ~lastSync["t1"].again
    /\ DOMAIN rows["t1"].custom_fields = {Client, Fee}
    /\ RandomNotes \notin DOMAIN rows["t1"].custom_fields

\* C25: the manual-sync route reads the row it returns only after both the
\* field sync and the relationship sync have finished, and in every
\* interleaving of the two, also when the task had no row when the request
\* arrived, the returned row carries the maps the field sync wrote and, as
\* its parent reference, the upstream parent when the parent had a row when
\* the request arrived and the relationship update met no storage error.
C25_ManualSyncReturnsBoth ==
    [][(manual'.answer # manual.answer /\ manual'.answer # NoResponse /\ manual'.answer.success)
       => /\ manual.rel = "done"
          /\ \E p \in Procs : pc[p] = "done" /\ pc'[p] = "idle"
          /\ \A p \in Procs :
                (pc[p] = "done" /\ result[p] = Success("row"))
                => LET row == manual'.answer.task
                       parent == manual.detail.parent
                   IN  /\ row # NoRow
                       /\ row.custom_fields = fieldData[p].customFields
                       /\ row.relationships = fieldData[p].relationships
                       /\ row.field_values = fieldData[p].fieldValues
                       /\ (parent \in manual.had /\ "code" \notin DOMAIN call)
                          => row.parent_id = parent]_vars

C27_RelationshipErrors ==
    [][\A t \in Tasks, relationships \in Relationships, code \in StorageErrorCodes :
         updateTaskRelationshipsCatch(t, relationships, code)
         => /\ rows' = rows
            /\ checkedOut' = checkedOut
            /\ (code = ForeignKeyViolation) => call'.out = "null"
            /\ (code # ForeignKeyViolation) => call'.out = "throw"]_vars

\* A relink of a task that has a row ended in a foreign-key violation: null
\* was returned and the row still names its earlier parent.
C27_Witness ==
    /\ call.op = "updateTaskRelationships"
    /\ "code" \in DOMAIN call
    /\ call.code = ForeignKeyViolation
    /\ call.out = "null"
    /\ call.was = "t2"
    /\ call.given # call.was
    /\ rows[call.taskId].parent_id = "t2"

\* C28: getListTasks makes at most three attempts and goes on to another
\* only after a 502 or a 429.  When the attempts are used up and the last
\* answer is a 502 it returns the empty list; in every other failing case,
\* the attempts used up with a 429 and an error that is not retried
\* included, the error is thrown to the caller.
C28_ListTasksFallback ==
    (listing.op = "getListTasks" /\ listing.responses # <<>>)
    => LET r == listing.responses
           last == r[Len(r)]
       IN  /\ Len(r) <= Retries
           /\ listing.pages = [i \in 1..Len(r) |-> 0]
           /\ \A i \in 1..(Len(r) - 1) : r[i] \in {502, 429}
           /\ listing.out = Pending <=> (last \in {502, 429} /\ Len(r) < Retries)
           /\ (last = 502 /\ Len(r) = Retries) => listing.out = Returned(<<>>)
           /\ (last = 429 /\ Len(r) = Retries) => listing.out = Thrown(429)
           /\ (Rejects(last) /\ last \notin {502, 429}) => listing.out = Thrown(last)
           /\ ~Rejects(last) => \E n \in ListLengths : listing.out = Returned(Page(0, n))

\* Three attempts were answered 502 and the caller has the empty list.
C28_Witness ==
    /\ listing.op = "getListTasks"
    /\ listing.responses = <<502, 502, 502>>
    /\ listing.out = Returned(<<>>)

\* The tasks of the pages whose lengths are given, page 0 first.
RECURSIVE PagesUpTo(_)
PagesUpTo(lengths) ==
    IF lengths = <<>> THEN <<>>
    ELSE PagesUpTo(SubSeq(lengths, 1, Len(lengths) - 1))
            \o Page(Len(lengths) - 1, lengths[Len(lengths)])

\* C29: getSpaceTasks asks for the pages 0, 1, 2, ... in order, each once;
\* it goes on exactly while every page so far held 100 tasks, returns after
\* the first page that holds fewer, and what it returns is the pages'
\* tasks in order; an error on any page is thrown to the caller, who gets no
\* list.
C29_SpacePagination ==
    listing.op = "getSpaceTasks"
    => LET n == Len(listing.pages)
           answered == Len(listing.lengths)
       IN  /\ listing.pages = [i \in 1..n |-> i - 1]
           /\ \A i \in 1..(answered - 1) : listing.lengths[i] = PageSize
           /\ listing.allTasks = PagesUpTo(listing.lengths)
           /\ listing.out = Pending
                 <=> (n = answered /\ \A i \in 1..answered : listing.lengths[i] = PageSize)
           /\ (n = answered /\ \E i \in 1..answered : listing.lengths[i] < PageSize)
                 => listing.out = Returned(PagesUpTo(listing.lengths))
           /\ n # answered
                 => /\ n = answered + 1
                    /\ Rejects(listing.responses[n])
                    /\ listing.out = Thrown(listing.responses[n])

\* Two full pages and a short one were fetched: the 202 tasks are returned.
C29_Witness ==
    /\ listing.op = "getSpaceTasks"
    /\ listing.pages = <<0, 1, 2>>
    /\ listing.lengths = <<PageSize, PageSize, 2>>
    /\ listing.out = Returned(PagesUpTo(listing.lengths))
    /\ Len(listing.out.tasks) = 2 * PageSize + 2

\* C30: every invocation of syncTaskCustomFields that was started eventually
\* has a result, success or failure, when the calls it awaits are answered;
\* and its retry loop never makes more than three attempts.
C30_SyncTerminates ==
    /\ \A p \in Procs : (pc[p] # "idle") ~> (pc[p] = "done" /\ result[p] # NoResult)
    /\ [](\A p \in Procs : attempt[p] < Retries /\ Len(responses[p]) <= Retries)

\* An invocation has its result after two failed attempts and a third that
\* was answered, while the other invocation is inside its type refresh.
C30_Witness ==
    \E p \in Procs, q \in Procs :
        /\ p # q
        /\ pc[p] = "done"
        /\ result[p] # NoResult
        /\ result[p].success
        /\ attempt[p] = Retries - 1
        /\ pc[q] \in {"types_delete", "types_commit"}

\* C31: the retention sweep.  A sweep that commits deletes exactly the task
\* rows whose updated_at is older than the retention age and then exactly
\* the task_types rows that no remaining task row refers to: afterwards no
\* task row older than the age remains, every other task row is as it was,
\* and every remaining type row is referred to by a task row.  A sweep that
\* meets a storage error deletes nothing.
C31_RetentionSweep ==
    [][/\ \A daysToKeep \in 0..MaxClock :
            cleanOldData(daysToKeep)
            => /\ \A t \in Tasks :
                     rows'[t] = IF rows[t] # NoRow /\ rows[t].updated_at < clock - daysToKeep
                                THEN NoRow ELSE rows[t]
               /\ \A t \in Tasks :
                     rows'[t] # NoRow => ~(rows'[t].updated_at < clock - daysToKeep)
               /\ \A i \in DOMAIN task_types' :
                     /\ task_types'[i] = task_types[i]
                     /\ \E t \in Tasks : rows'[t] # NoRow /\ rows'[t].task_type_id = i
               /\ \A i \in (DOMAIN task_types) \ DOMAIN task_types' :
                     \A t \in Tasks : rows'[t] # NoRow => rows'[t].task_type_id # i
       /\ cleanOldDataCatch
            => /\ rows' = rows
               /\ task_types' = task_types
               /\ checkedOut' = checkedOut]_vars

\* A sweep has run after a catalog refresh stored every type: a task row is
\* gone, the types left without a reference are gone, and a task row with
\* its type remains.
C31_Witness ==
    /\ events > 0
    /\ \A p \in Procs : pc[p] = "idle"
    /\ \E t \in Tasks : rows[t] = NoRow
    /\ \E t \in Tasks : rows[t] # NoRow /\ rows[t].task_type_id \in DOMAIN task_types
    /\ DOMAIN task_types # {}
    /\ DOMAIN task_types # DOMAIN AllTypes

\* C32: the relationship updater writes only to an existing task.  Called
\* for a task id that has no row, updateTaskRelationships rolls back and
\* returns null; no row is created or changed, no type row and no ledger
\* record is written, and the connection is back in the pool.
C32_RelationshipsNeedRow ==
    [][\A t \in Tasks, relationships \in Relationships :
         (updateTaskRelationships(t, relationships) /\ ~HasRow(rows, t))
         => /\ call'.out = "null"
            /\ rows' = rows
            /\ task_types' = task_types
            /\ field_changes' = field_changes
            /\ checkedOut' = checkedOut]_vars

\* The updater was called with a parent that has a row for a task that has
\* none, and returned null: the task still has no row.
C32_Witness ==
    /\ call.op = "updateTaskRelationships"
    /\ call.out = "null"
    /\ "code" \notin DOMAIN call
    /\ call.given # NULL
    /\ HasRow(rows, call.given)
    /\ ~HasRow(rows, call.taskId)

\* C33: the provenance tag.  Every step of the core (the field sync with its
\* placeholder insert, type link and update, and the relationship updater),
\* that is every step but the importer's, leaves _airbyte_raw_id of a row
\* that exists as it was; the only core step that gives a row a tag is the
\* placeholder insert, which creates the row with the tag manual_<id>.
C33_ProvenanceKept ==
    [][events' = events
       => \A t \in Tasks :
             /\ (rows[t] # NoRow /\ rows'[t] # NoRow)
                => rows'[t]._airbyte_raw_id = rows[t]._airbyte_raw_id
             /\ (rows[t] = NoRow /\ rows'[t] # NoRow)
                => rows'[t]._airbyte_raw_id = ManualTag(t)]_vars

\* A row the importer created has been through the field update and the
\* relationship update and still carries the importer's tag.
C33_Witness ==
    /\ rows["t1"] # NoRow
    /\ rows["t1"]._airbyte_raw_id = "airbyte_t1"
    /\ rows["t1"].custom_fields # <<>>
    /\ rows["t1"].parent_id # NULL
    /\ call.op = "updateTaskRelationships"
    /\ call.taskId = "t1"
    /\ call.out = "row"

\* C34: the check-then-insert race.  When two invocations for the same task
\* have both found no row, the placeholder insert of the first creates the
\* row and the insert of the second is rejected as a duplicate: an insert
\* succeeds only where no row was, a row once there stays, and the rejected
\* invocation ends at once with a failure result, having written nothing
\* and opened no type refresh, type link or update.
C34_CheckThenInsertRace ==
    [][\A p \in Procs :
          (pc[p] = "insert" /\ pc'[p] # "insert")
          => LET t == taskId[p]
             IN  /\ \A u \in Tasks : rows[u] # NoRow => rows'[u] # NoRow
                 /\ IF rows[t] = NoRow
                    THEN /\ pc'[p] = "verify"
                         /\ rows'[t] = PlaceholderRow(t, taskDetails[p], clock)
                    ELSE /\ pc'[p] = "done"
                         /\ result'[p] # NoResult
                         /\ ~result'[p].success
                         /\ rows' = rows
                         /\ task_types' = task_types
                         /\ tx' = tx
                         /\ checkedOut' = checkedOut]_vars

\* Both invocations found no row for the task; one inserted the placeholder
\* and went on, the other's insert was rejected and it ended in failure.
C34_Witness ==
    \E p \in Procs, q \in Procs :
        /\ p # q
        /\ taskId[p] = taskId[q]
        /\ pc[p] = "done"
        /\ result[p] = Failure("duplicate key value violates unique constraint")
        /\ pc[q] \in {"verify", "types_fetch", "types_upsert", "types_delete",
                      "types_commit", "link", "update", "done"}
        /\ rows[taskId[q]] # NoRow
        /\ rows[taskId[q]]._airbyte_raw_id = ManualTag(taskId[q])

\* C35: syncTaskCustomFields never raises.  An invocation is always at one
\* of its steps or has its result; the step at which it ends either is the
\* update returning, with a success result, or is a failing step (the
\* detail fetch, the placeholder insert, the type refresh, the type link or
\* the update), which ends it at once with success false and the error's
\* message and writes nothing: no later step of the invocation runs.
C35_SyncNeverRaises ==
    [][\A p \in Procs :
          /\ pc'[p] \in {"idle", "fetch", "check", "insert", "verify", "types_fetch",
                         "types_upsert", "types_delete", "types_commit", "link",
                         "update", "done"}
          /\ (pc[p] # "done" /\ pc'[p] = "done")
             => /\ result'[p] # NoResult
                /\ result'[p].success => pc[p] = "update"
                /\ ~result'[p].success
                   => /\ result'[p].error # NULL
                      /\ pc[p] \in {"fetch", "insert", "verify", "types_fetch",
                                    "types_upsert", "types_delete", "types_commit",
                                    "link", "update"}
                      /\ rows' = rows
                      /\ task_types' = task_types
                      /\ tx'[p] = NoTx]_vars

\* The placeholder insert of an invocation was rejected (the importer wrote
\* the row after the existence check) and the invocation has a failure
\* result with the error's message.
C35_Witness ==
    \E p \in Procs :
        /\ pc[p] = "done"
        /\ result[p] = Failure("duplicate key value violates unique constraint")
        /\ rows[taskId[p]] # NoRow
        /\ rows[taskId[p]]._airbyte_raw_id # ManualTag(taskId[p])

\* C36: referential integrity of the type linkage.  In every reachable
\* state, whatever catalog refreshes, type links, relationship updates and
\* retention sweeps have run, every task row whose task_type_id is not null
\* refers to a type id that task_types holds.
C36_TypeLinkIntegrity ==
    \A t \in Tasks :
        (rows[t] # NoRow /\ rows[t].task_type_id # NULL)
        => rows[t].task_type_id \in DOMAIN task_types

\* A task row is linked to a type while the catalog no longer lists that
\* type and a refresh that would prune it has run: the type row is kept.
C36_Witness ==
    /\ rows["t1"] # NoRow
    /\ rows["t1"].task_type_id # NULL
    /\ rows["t1"].task_type_id \in DOMAIN task_types
    /\ rows["t1"].task_type_id \notin DOMAIN catalog
    /\ catalog # <<>>
    /\ \E p \in Procs : pc[p] = "done" /\ result[p] = Failure("violates foreign key constraint")

\* The positions of the named entries of a field sequence whose names clean
\* to the given name.
PositionsOf(fields, cleanName) ==
    {i \in DOMAIN fields : fields[i].name # <<>> /\ CleanName(fields[i].name) = cleanName}

\* The entry that comes last among them.
LastOf(fields, cleanName) ==
    fields[CHOOSE i \in PositionsOf(fields, cleanName) :
               \A j \in PositionsOf(fields, cleanName) : j <= i]

\* C37: clean-name collisions.  When several named fields of the detail a
\* sync fetched clean to the same name, the field-definition map the update
\* stores has one entry for that clean name (the number of entries is the
\* number of distinct clean names) and the entry is that of the field that
\* comes last in the upstream sequence: its id, type and original name.
C37_LastFieldWins ==
    [][\A p \in Procs :
         UpdateCommits(p)
         => LET fields == taskDetails[p].custom_fields
                stored == rows'[taskId[p]].custom_fields
            IN  /\ Cardinality(DOMAIN stored) = Cardinality(CleanNamesOf(taskDetails[p]))
                /\ \A cleanName \in CleanNamesOf(taskDetails[p]) :
                      /\ cleanName \in DOMAIN stored
                      /\ stored[cleanName].id = LastOf(fields, cleanName).id
                      /\ stored[cleanName].type = LastOf(fields, cleanName).type
                      /\ stored[cleanName].original_name = LastOf(fields, cleanName).name]_vars

\* A row last updated from the detail in which "Client" is followed, later
\* in the sequence, by "Client" with an emoji: the one entry under the clean
\* name is that of the emoji field.
C37_Witness ==
    /\ rows["t1"] # NoRow
    /\ lastSync["t1"] # NoSync
    /\ Client \in DOMAIN rows["t1"].custom_fields
    /\ Cardinality(PositionsOf(DetailGamma.custom_fields, Client)) = 2
    /\ rows["t1"].custom_fields[Client].id = FieldClientEmoji.id
    /\ rows["t1"].custom_fields[Client].original_name = ClientEmoji
    /\ \E p \in Procs : pc[p] = "done" /\ result[p] # NoResult /\ result[p].success
                        /\ taskDetails[p] = DetailGamma

====
